---- MODULE Spec2Model ----
(***************************************************************************)
(* Multi-port / multi-channel UDP<->CAN loopback harness                   *)
(* (src/tests/udp_can_loopback_pingpong_multi.py).                         *)
(*                                                                         *)
(* Threads: one receive loop per PortContext, one ChannelTester per        *)
(* channel, the reporter, and main (the orchestrator).  One PortContext is *)
(* modelled; its mailbox, condition variable and send lock are shared by   *)
(* every tester.  Frames are byte sequences, packed and unpacked as the    *)
(* struct formats ">BI8s" and "=IB3s8s" do.                                *)
(*                                                                         *)
(* Time is abstracted: expired[t] says that the deadline of tester t's     *)
(* current bounded wait has passed.  It is set by Expire(t), at any moment *)
(* of the wait, and read where the code computes remaining <= 0.           *)
(***************************************************************************)
EXTENDS Integers, Sequences, FiniteSets, TLC

\* ------------------------------------------------------------ bounds
\* Cycles one tester may start (the loop of run() is unbounded).
MaxCycles == 2
\* Datagrams of at least 13 bytes an arbitrary peer sends to the port.
MaxPkts == 2

\* ------------------------------------------------------------ codec
UDP_SIZE == 13
CAN_SIZE == 16

\* A 32-bit word is kept as its four bytes, most significant first, so that
\* the extended-frame bit 0x80000000 is bit 7 of byte 1.
U32(n) ==
    << (n \div 16777216) % 256, (n \div 65536) % 256, (n \div 256) % 256, n % 256 >>

\* The value of a word whose top bit is clear.
U32Value(w) == ((w[1] * 256 + w[2]) * 256 + w[3]) * 256 + w[4]

Reverse(s) == [i \in 1..Len(s) |-> s[Len(s) + 1 - i]]

\* frame_id = base_id | CAN_EFF_FLAG
OrEffFlag(w) == << IF w[1] >= 128 THEN w[1] ELSE w[1] + 128, w[2], w[3], w[4] >>

\* can_id & CAN_EFF_MASK  (0x1FFFFFFF keeps the low 5 bits of the top byte)
AndEffMask(w) == << w[1] % 32, w[2], w[3], w[4] >>

\* Variant: the payload is taken one byte too early.
UdpUnpackShifted(b) ==
    [info |-> b[1], can_id |-> SubSeq(b, 2, 5), payload |-> SubSeq(b, 5, 12)]

\* UDP_STRUCT = struct.Struct(">BI8s"): info, big-endian id, 8 data bytes.
UdpPack(info, idw, data) == <<info>> \o idw \o data

UdpUnpack(b) ==
    [info |-> b[1], can_id |-> SubSeq(b, 2, 5), payload |-> SubSeq(b, 6, UDP_SIZE)]

\* CAN_STRUCT = struct.Struct("=IB3s8s"): native (little-endian) id, dlc,
\* 3 pad bytes, 8 data bytes.
CanPack(idw, dlc, pad, data) == Reverse(idw) \o <<dlc>> \o pad \o data

CanUnpack(b) ==
    [can_id |-> Reverse(SubSeq(b, 1, 4)), dlc |-> b[5],
     pad |-> SubSeq(b, 6, 8), data |-> SubSeq(b, 9, CAN_SIZE)]

Pad3 == <<0, 0, 0>>

\* os.urandom(8): two payloads that differ in their last byte.
PayloadA == <<1, 2, 3, 4, 5, 6, 7, 8>>
PayloadB == <<1, 2, 3, 4, 5, 6, 7, 9>>
Payloads == {PayloadA, PayloadB}

\* ------------------------------------------------------------ state
VARIABLES
    peer,          \* what the bridge under test does: "any", "any13", "echo",
                   \* "silent", "corrupt"
    channels,      \* tester -> [id_min, id_max]  (config.json, channels[*].id_range)
    stop,          \* stop_event
    mailbox,       \* PortContext._mailbox: can_id -> queue of items; DOMAIN = keys present
    running,       \* PortContext._running
    sockOpen,      \* PortContext.sock not yet closed
    sendOwner,     \* thread holding PortContext._send_lock, or "free"
    rxPc,          \* position of the receive loop
    rxItem,        \* the tuple the receive loop is about to enqueue, <<>> if none
    pc,            \* tester -> position in run()
    can_sock,      \* tester -> "none" (None), "open", "unbound", "closed"
    base_id,       \* tester -> base_id of the current cycle
    payload,       \* tester -> payload of the current cycle
    udp_resp,      \* tester -> <<item>> returned by wait_for_packet, <<>> for None
    frame_bytes,   \* tester -> <<frame>> returned by can_sock.recvfrom, <<>> if none
    expired,       \* tester -> the deadline of its current bounded wait has passed
    stats,         \* tester -> ChannelStats counters
    bridgeCan,     \* CAN frames the peer has received and not yet answered
    bridgeUdp,     \* datagrams sent to the peer's listen port, not yet answered
                   \* (peer "any" answers none: all it was sent; "any13", "silent": not kept)
    mainPc,        \* position of main()
    repPc,         \* position of reporter_loop
    nrecv,         \* history: datagrams of at least 13 bytes received so far (numbers them)
    delivered,     \* history: datagram number -> times wait_for_packet returned it
    inflight,      \* history: testers that were blocked in wait_for_packet when
                   \* close() was invoked, until run() has acted on what it returned
    \* One ChannelStats object, statement by statement:
    cstats,        \* its counters
    lock,          \* thread holding ChannelStats.lock, or "free"
    recPc,         \* position of the tester thread in record()
    recArg,        \* <<[outcome, test_id, before]>> of the last record() call:
                   \* its arguments, and (history) the counters when it was called
    snapPc,        \* position of the reporter thread in snapshot()
    snapTmp,       \* the dict snapshot() is building
    snap,          \* <<the dict the last snapshot() returned>>, <<>> before the first
    commits,       \* history: the counters as they were between record() calls
    \* main(), from the configuration to the exit of the process:
    ports_cfg,     \* config["ports"]: sequence of port entries
    startPc,       \* position of main()
    idx,           \* index of the running for loop (1-based)
    port_contexts, \* indexes of the ports whose PortContext is in port_contexts
    closed,        \* indexes of the ports whose PortContext.close() was called
    rxAlive,       \* indexes of the ports whose receive thread is alive
    runners,       \* indexes of the ports whose channel has a ChannelTester in runners
    runnersAlive,  \* those whose thread is alive
    openFailed,    \* history: those whose open() returned False
    reporter,      \* reporter thread: "none" (never started), "alive", "ended"
    exitCode,      \* exit code of the process, -1 while it runs
    ending,        \* history: which path ended main()
    \* The frame codec applied to one frame:
    frameIn,       \* <<the frame>>, <<>> when the codec is not followed
    wire,          \* its encoding
    decoded,       \* <<the frame decoded from wire>>, <<>> before
    codecPc        \* "frame", then "can_wire", "can_done" or "udp_wire", "udp_done"

vars ==
    << peer, channels, stop, mailbox, running, sockOpen, sendOwner,
       rxPc, rxItem, pc, can_sock, base_id, payload, udp_resp, frame_bytes, expired,
       stats, bridgeCan, bridgeUdp, mainPc, repPc, nrecv, delivered, inflight,
       cstats, lock, recPc, recArg, snapPc, snapTmp, snap, commits,
       ports_cfg, startPc, idx, port_contexts, closed, rxAlive, runners,
       runnersAlive, openFailed, reporter, exitCode, ending,
       frameIn, wire, decoded, codecPc >>

portVars == << mailbox, running, sockOpen, sendOwner, rxPc, rxItem >>
cycleVars == << base_id, payload, udp_resp, frame_bytes, expired, stats >>
envVars == << bridgeCan, bridgeUdp >>
mainVars == << mainPc, repPc, inflight >>
statVars == << cstats, lock, recPc, recArg, snapPc, snapTmp, snap, commits >>
\* What no step of the threads above changes: the configuration, and the
\* statement-by-statement views.
startVars ==
    << ports_cfg, startPc, idx, port_contexts, closed, rxAlive, runners,
       runnersAlive, openFailed, reporter, exitCode, ending >>
codecVars == << frameIn, wire, decoded, codecPc >>
cfgVars == << peer, channels, statVars, startVars, codecVars >>
\* The harness as modelled step by step per thread.
harnessVars ==
    << peer, channels, stop, portVars, pc, can_sock, cycleVars, envVars,
       mainVars, nrecv, delivered >>

Testers == DOMAIN channels

\* Variant: no channel is extended.
ExtendedNever(t) == FALSE

\* self.extended = self.id_max > 0x7FF
Extended(t) == channels[t].id_max > 2047

\* Variant: the lock never makes a thread wait.
LockFreeAlways(owner) == TRUE

\* "with lock:" on a threading.Lock can be entered when no thread holds it.
LockFree(owner) == owner = "free"

\* ------------------------------------------------------------ ChannelStats
NewStats ==
    [total |-> 0, success |-> 0, udp_timeouts |-> 0, can_timeouts |-> 0,
     data_errors |-> 0, send_errors |-> 0, last_id |-> 0]

\* Variant: the two timeout counters are exchanged.
RecordTimeoutsSwapped(st, oc, test_id) ==
    [st EXCEPT !.total = @ + 1,
               !.last_id = test_id,
               !.success = IF oc = "success" THEN @ + 1 ELSE @,
               !.udp_timeouts = IF oc = "can_timeout" THEN @ + 1 ELSE @,
               !.can_timeouts = IF oc = "udp_timeout" THEN @ + 1 ELSE @,
               !.data_errors = IF oc = "data_error" THEN @ + 1 ELSE @,
               !.send_errors = IF oc = "send_error" THEN @ + 1 ELSE @]

\* Variant: a failed send is not recorded.
RecordSkipsSendError(st, oc, test_id) ==
    IF oc = "send_error" THEN st
    ELSE [st EXCEPT !.total = @ + 1,
                    !.last_id = test_id,
                    !.success = IF oc = "success" THEN @ + 1 ELSE @,
                    !.udp_timeouts = IF oc = "udp_timeout" THEN @ + 1 ELSE @,
                    !.can_timeouts = IF oc = "can_timeout" THEN @ + 1 ELSE @,
                    !.data_errors = IF oc = "data_error" THEN @ + 1 ELSE @]

\* ChannelStats.record: the whole body runs under self.lock.
Record(st, oc, test_id) ==
    [st EXCEPT !.total = @ + 1,
               !.last_id = test_id,
               !.success = IF oc = "success" THEN @ + 1 ELSE @,
               !.udp_timeouts = IF oc = "udp_timeout" THEN @ + 1 ELSE @,
               !.can_timeouts = IF oc = "can_timeout" THEN @ + 1 ELSE @,
               !.data_errors = IF oc = "data_error" THEN @ + 1 ELSE @,
               !.send_errors = IF oc = "send_error" THEN @ + 1 ELSE @]

\* ------------------------------------------------------------ the peer
\* The bridge turns a CAN frame into a 13-byte datagram ...
CanToUdp(frame) ==
    LET f == CanUnpack(frame)
    IN  UdpPack((IF f.can_id[1] >= 128 THEN 128 ELSE 0) + f.dlc,
                AndEffMask(f.can_id), f.data)

\* ... and a datagram sent to its listen port into a CAN frame.
UdpToCan(b) ==
    LET u == UdpUnpack(b)
    IN  CanPack(IF u.info >= 128 THEN OrEffFlag(u.can_id) ELSE u.can_id,
                u.info % 16, Pad3, u.payload)

\* One corrupted payload byte (the last).
CorruptByte(b) == [b EXCEPT ![13] = (@ + 1) % 256]

\* Identifiers the arbitrary peer uses.
PeerIds == {2047, 2048}

\* The peer is arbitrary: "any", or "any13" when every datagram of 13 bytes
\* or more that it sends is well-formed and every CAN frame declares 8 bytes.
Arbitrary == peer \in {"any", "any13"}

\* Datagrams of an arbitrary peer: well-formed ones, one of 12 and one of 14
\* bytes, and one of 13 bytes whose info byte declares a length of 15.
ShortDatagram == SubSeq(UdpPack(8, U32(2047), PayloadA), 1, 12)
LongDatagram == UdpPack(8, U32(2047), PayloadA) \o <<0>>
BadLenDatagram == UdpPack(15, U32(2047), PayloadA)
AnyDatagrams ==
    {UdpPack(8, U32(i), PayloadA) : i \in PeerIds}
        \cup {ShortDatagram}
        \cup (IF peer = "any" THEN {LongDatagram, BadLenDatagram} ELSE {})

\* CAN frames an arbitrary peer puts on a tester's interface: standard and
\* extended ones with either payload; peer "any" also sends 0x7FF as an
\* extended frame, and frames that declare 7 data bytes.
AnyCanFrames ==
    IF peer = "any"
    THEN {CanPack(w, d, Pad3, p) :
             w \in {U32(2047), OrEffFlag(U32(2047)), OrEffFlag(U32(2048))},
             d \in {7, 8}, p \in Payloads}
    ELSE {CanPack(w, 8, Pad3, p) :
             w \in {U32(2047), OrEffFlag(U32(2048))}, p \in Payloads}

\* ------------------------------------------------------------ mailbox
\* self._mailbox.get(can_id): the queue, or None (here <<>>) when the key is absent.
MailboxGet(mb, can_id) == IF can_id \in DOMAIN mb THEN mb[can_id] ELSE <<>>

\* Variant: the item is put at the front of the queue.
MailboxAppendLeft(mb, can_id, item) ==
    [k \in DOMAIN mb \cup {can_id} |->
        IF k = can_id THEN <<item>> \o MailboxGet(mb, can_id) ELSE mb[k]]

\* self._mailbox[can_id].append(item) on a defaultdict(deque).
MailboxAppend(mb, can_id, item) ==
    [k \in DOMAIN mb \cup {can_id} |->
        IF k = can_id THEN Append(MailboxGet(mb, can_id), item) ELSE mb[k]]

\* Variant: the head of the queue is read and left in place.
MailboxPeek(mb, can_id) == mb

\* Variant: the key is deleted with whatever is still queued under it.
MailboxPopFlush(mb, can_id) == [k \in DOMAIN mb \ {can_id} |-> mb[k]]

\* Variant: queue.popleft() only; an emptied queue keeps its key.
MailboxPopKeepKey(mb, can_id) ==
    [k \in DOMAIN mb |-> IF k = can_id THEN Tail(mb[k]) ELSE mb[k]]

\* queue.popleft(), then del self._mailbox[can_id] if the queue is empty.
MailboxPop(mb, can_id) ==
    IF Len(mb[can_id]) = 1
    THEN [k \in DOMAIN mb \ {can_id} |-> mb[k]]
    ELSE [k \in DOMAIN mb |-> IF k = can_id THEN Tail(mb[k]) ELSE mb[k]]

\* Variant: nobody is woken.
NotifyNone(p) == p

\* self._cond.notify_all(): every thread blocked in self._cond.wait() must
\* re-acquire the lock and go round its loop again.
NotifyAll(p) == [t \in DOMAIN p |-> IF p[t] = "wfp_wait" THEN "wfp_enter" ELSE p[t]]

\* ------------------------------------------------------------ initial states
\* A ports entry that names both ports and has one channel.
OnePort ==
    [udp_listen_port |-> <<9000>>, udp_send_port |-> <<9001>>,
     udp_port |-> <<>>, channels |-> 1]

\* Everything but the ports list.
InitRest ==
    /\ stop = FALSE
    /\ mailbox = [k \in {} |-> <<>>]
    /\ running = TRUE
    /\ sockOpen = TRUE
    /\ sendOwner = "free"
    /\ rxPc = "loop"
    /\ rxItem = <<>>
    /\ pc = [t \in Testers |-> "start"]
    /\ can_sock = [t \in Testers |-> "none"]
    /\ base_id = [t \in Testers |-> 0]
    /\ payload = [t \in Testers |-> <<>>]
    /\ udp_resp = [t \in Testers |-> <<>>]
    /\ frame_bytes = [t \in Testers |-> <<>>]
    /\ expired = [t \in Testers |-> FALSE]
    /\ stats = [t \in Testers |-> NewStats]
    /\ bridgeCan = <<>>
    /\ bridgeUdp = [t \in Testers |-> <<>>]
    /\ mainPc = "run"
    /\ repPc = "loop"
    /\ nrecv = 0
    /\ delivered = [k \in {} |-> 0]
    /\ inflight = {}
    /\ cstats = NewStats
    /\ lock = "free"
    /\ recPc = "idle"
    /\ recArg = <<>>
    /\ snapPc = "idle"
    /\ snapTmp = NewStats
    /\ snap = <<>>
    /\ commits = {NewStats}
    /\ startPc = "check"
    /\ idx = 1
    /\ port_contexts = {}
    /\ closed = {}
    /\ rxAlive = {}
    /\ runners = {}
    /\ runnersAlive = {}
    /\ openFailed = {}
    /\ reporter = "none"
    /\ exitCode = -1
    /\ ending = "none"
    /\ wire = <<>>
    /\ decoded = <<>>
    /\ codecPc = "frame"

\* The threads of one port, started, under a ports list of one entry.
InitThreads ==
    /\ ports_cfg = << OnePort >>
    /\ frameIn = <<>>
    /\ InitRest

\* Two channels on one port whose ranges overlap in 0x7FF; the second one,
\* with id_max = 0x800, is an extended channel.  The peer is arbitrary, with
\* well-formed or short datagrams.
Init ==
    /\ peer = "any13"
    /\ channels = [t \in {"t1", "t2"} |->
                      IF t = "t1" THEN [id_min |-> 2047, id_max |-> 2047]
                                  ELSE [id_min |-> 2047, id_max |-> 2048]]
    /\ InitThreads

\* ------------------------------------------------------------ PortContext._rx_loop
\* while self._running and not self.stop_event.is_set()
RxLoopTest ==
    /\ rxPc = "loop"
    /\ rxPc' = IF running /\ ~stop THEN "recv" ELSE "done"
    /\ UNCHANGED << cfgVars, stop, mailbox, running, sockOpen, sendOwner,
                    rxItem, pc, can_sock, cycleVars, envVars,
                    mainVars, nrecv, delivered >>

\* What the peer has sent to the port's socket and recvfrom may return next.
Arrivals ==
    CASE Arbitrary -> IF nrecv < MaxPkts THEN AnyDatagrams ELSE {}
      [] peer = "silent" -> {}
      [] peer = "echo" ->
            IF bridgeCan = <<>> THEN {} ELSE {CanToUdp(Head(bridgeCan))}
      [] peer = "corrupt" ->
            IF bridgeCan = <<>> THEN {} ELSE {CorruptByte(CanToUdp(Head(bridgeCan)))}

\* self.sock.recvfrom(64): a datagram, socket.timeout (0.2 s), or OSError once
\* the socket is closed.
RecvOutcomes ==
    IF sockOpen
    THEN {[kind |-> "timeout", bytes |-> <<>>]}
             \cup {[kind |-> "packet", bytes |-> b] : b \in Arrivals}
    ELSE {[kind |-> "oserror", bytes |-> <<>>]}

\* len(packet) < UDP_STRUCT.size: continue
Dropped(packet) == Len(packet) < UDP_SIZE

\* info, can_id, payload = UDP_STRUCT.unpack(packet[:UDP_STRUCT.size]);
\* the tuple built for the mailbox is (packet, info, can_id, payload).  seq is
\* history: the datagram's number.  can_id is at most 0x7FFFFFFF here.
MakeItem(packet, n) ==
    LET u == UdpUnpack(SubSeq(packet, 1, UDP_SIZE))
    IN  [packet |-> packet, info |-> u.info, can_id |-> U32Value(u.can_id),
         payload |-> u.payload, seq |-> n]

RxRecv ==
    /\ rxPc = "recv"
    /\ \E r \in RecvOutcomes :
          /\ rxPc' = CASE r.kind = "oserror" -> "done"
                       [] r.kind = "timeout" -> "loop"
                       [] r.kind = "packet" ->
                             IF Dropped(r.bytes) THEN "loop" ELSE "enqueue"
          /\ rxItem' = IF r.kind = "packet" /\ ~Dropped(r.bytes)
                       THEN <<MakeItem(r.bytes, nrecv + 1)>> ELSE <<>>
          /\ nrecv' = IF r.kind = "packet" /\ ~Dropped(r.bytes) THEN nrecv + 1 ELSE nrecv
          /\ bridgeCan' = IF r.kind = "packet" /\ peer \in {"echo", "corrupt"}
                          THEN Tail(bridgeCan) ELSE bridgeCan
    /\ UNCHANGED << cfgVars, stop, mailbox, running, sockOpen, sendOwner,
                    pc, can_sock, cycleVars, bridgeUdp,
                    mainVars, delivered >>

\* Variant: items are filed under the 11-bit standard part of the identifier.
MailboxKeyStd(item) == item.can_id % 2048

\* The key an item is filed under.
MailboxKey(item) == item.can_id

\* with self._cond: self._mailbox[can_id].append(...); self._cond.notify_all()
\* Every access to the mailbox is made holding self._cond, so each such block is
\* one step.
RxEnqueue ==
    /\ rxPc = "enqueue"
    /\ mailbox' = MailboxAppend(mailbox, MailboxKey(rxItem[1]), rxItem[1])
    /\ pc' = NotifyAll(pc)
    /\ rxItem' = <<>>
    /\ rxPc' = "loop"
    /\ UNCHANGED << cfgVars, stop, running, sockOpen, sendOwner,
                    can_sock, cycleVars, envVars,
                    mainVars, nrecv, delivered >>

\* ------------------------------------------------------------ ChannelTester
\* What the CAN device and the UDP socket do: with an arbitrary peer a bind or a
\* send may fail.  (socket() itself is taken to succeed.)
OpenOutcomes == IF Arbitrary THEN {"open", "unbound"} ELSE {"open"}
SendOutcomes == IF Arbitrary THEN {TRUE, FALSE} ELSE {TRUE}

\* The peer answers within the 0.5 s waits unless it is arbitrary or silent.
DeadlineMayPass == Arbitrary \/ peer = "silent"

\* Positions of run() inside one iteration of its loop, before the record.
InCycle ==
    {"send_can", "wfp_enter", "wfp_wait", "got_resp", "echo_udp", "sendto",
     "can_wait", "can_recv", "can_check"}

RECURSIVE CyclesOf(_)
CyclesOf(S) ==
    IF S = {} THEN 0
    ELSE LET t == CHOOSE x \in S : TRUE
         IN  stats[t].total + (IF pc[t] \in InCycle THEN 1 ELSE 0)
                 + CyclesOf(S \ {t})

\* Iterations all testers together have started.
CyclesStarted == CyclesOf(Testers)

\* run(): if not self.open(): return.  When bind() fails open() leaves can_sock
\* bound to nothing ("unbound") and run() returns without closing it.
RunOpen(t) ==
    /\ pc[t] = "start"
    /\ \E r \in OpenOutcomes :
          /\ can_sock' = [can_sock EXCEPT ![t] = r]
          /\ pc' = [pc EXCEPT ![t] = IF r = "open" THEN "loop" ELSE "done"]
    /\ UNCHANGED << cfgVars, stop, portVars, cycleVars, envVars, mainVars,
                    nrecv, delivered >>

\* Variant: the upper end of the range is overshot by one.
RandIntPastEnd(a, b) == a .. (b + 1)

\* random.randint(a, b): an integer of a..b, both ends included.
RandInt(a, b) == a .. b

\* Variant: the loop of run() never looks at the stop signal.
LoopCondAlways(s) == TRUE

\* while not self.stop_event.is_set()
LoopCond(s) == ~s

\* The loop test, then lines 198-202 (base_id, payload, frame), or the exit of
\* the loop: can_sock.close().
LoopTest(t) ==
    /\ pc[t] = "loop"
    /\ IF LoopCond(stop)
       THEN /\ CyclesStarted < MaxCycles
            /\ \E i \in RandInt(channels[t].id_min, channels[t].id_max), p \in Payloads :
                  /\ base_id' = [base_id EXCEPT ![t] = i]
                  /\ payload' = [payload EXCEPT ![t] = p]
            /\ pc' = [pc EXCEPT ![t] = "send_can"]
            /\ UNCHANGED can_sock
       ELSE /\ can_sock' = [can_sock EXCEPT ![t] = "closed"]
            /\ pc' = [pc EXCEPT ![t] = "done"]
            /\ UNCHANGED << base_id, payload >>
    /\ UNCHANGED << cfgVars, stop, portVars, udp_resp, frame_bytes, expired, stats, envVars,
                    mainVars, nrecv, delivered >>

\* frame_id = base_id | (CAN_EFF_FLAG if self.extended else 0)
\* frame = CAN_STRUCT.pack(frame_id, 8, b"\x00\x00\x00", payload)
Frame(t) ==
    CanPack(IF Extended(t) THEN OrEffFlag(U32(base_id[t])) ELSE U32(base_id[t]),
            8, Pad3, payload[t])

\* Variant: a cycle that fails ends the thread.
FinishFailureEnds(t, oc, next) ==
    /\ stats' = [stats EXCEPT ![t] = Record(@, oc, base_id[t])]
    /\ base_id' = [base_id EXCEPT ![t] = 0]
    /\ payload' = [payload EXCEPT ![t] = <<>>]
    /\ udp_resp' = [udp_resp EXCEPT ![t] = <<>>]
    /\ frame_bytes' = [frame_bytes EXCEPT ![t] = <<>>]
    /\ expired' = [expired EXCEPT ![t] = FALSE]
    /\ pc' = [pc EXCEPT ![t] = IF oc = "success" THEN next ELSE "done"]

\* Variant: all testers record into one shared statistics object.
FinishSharedStats(t, oc, next) ==
    /\ stats' = [u \in Testers |-> Record(stats[u], oc, base_id[t])]
    /\ base_id' = [base_id EXCEPT ![t] = 0]
    /\ payload' = [payload EXCEPT ![t] = <<>>]
    /\ udp_resp' = [udp_resp EXCEPT ![t] = <<>>]
    /\ frame_bytes' = [frame_bytes EXCEPT ![t] = <<>>]
    /\ expired' = [expired EXCEPT ![t] = FALSE]
    /\ pc' = [pc EXCEPT ![t] = next]

\* outcome = ...; self.stats.record(outcome, base_id); continue (or the end of
\* the loop body).  The iteration's locals are dead from here on and are
\* cleared.
Finish(t, oc, next) ==
    /\ stats' = [stats EXCEPT ![t] = Record(@, oc, base_id[t])]
    /\ base_id' = [base_id EXCEPT ![t] = 0]
    /\ payload' = [payload EXCEPT ![t] = <<>>]
    /\ udp_resp' = [udp_resp EXCEPT ![t] = <<>>]
    /\ frame_bytes' = [frame_bytes EXCEPT ![t] = <<>>]
    /\ expired' = [expired EXCEPT ![t] = FALSE]
    /\ pc' = [pc EXCEPT ![t] = next]

\* The iteration goes on to its next statement; a bounded wait that starts
\* there (deadline = time.time() + timeout) has not expired.
GoOn(t, next) ==
    /\ pc' = [pc EXCEPT ![t] = next]
    /\ expired' = [expired EXCEPT ![t] = FALSE]
    /\ UNCHANGED << stats, base_id, payload, udp_resp, frame_bytes >>

\* Variant: no pause after a failed CAN send.
NextAfterSendErrorNoPause(step) == "loop"

\* Where run() goes once send_error is recorded: to time.sleep(0.2) when
\* can_sock.send failed, straight to continue when send_to_bridge failed.
NextAfterSendError(step) == IF step = "send_can" THEN "sleep" ELSE "loop"

\* self.can_sock.send(frame); on OSError: send_error, sleep, continue.
\* On success wait_for_packet(base_id, 0.5) is entered.
SendCan(t) ==
    /\ pc[t] = "send_can"
    /\ \E ok \in SendOutcomes :
          IF ok
          THEN /\ bridgeCan' = IF peer \in {"echo", "corrupt"}
                               THEN Append(bridgeCan, Frame(t)) ELSE bridgeCan
               /\ GoOn(t, "wfp_enter")
          ELSE /\ Finish(t, "send_error", NextAfterSendError("send_can"))
               /\ UNCHANGED bridgeCan
    /\ UNCHANGED << cfgVars, stop, portVars, can_sock, bridgeUdp, mainVars,
                    nrecv, delivered >>

\* time.sleep(0.2); continue
Backoff(t) ==
    /\ pc[t] = "sleep"
    /\ pc' = [pc EXCEPT ![t] = "loop"]
    /\ UNCHANGED << cfgVars, stop, portVars, can_sock, cycleVars, envVars,
                    mainVars, nrecv, delivered >>

\* Variant: the deadline and the stop signal are tested before the queue.
WfpDecideDeadlineFirst(queue, isExpired, isStopped) ==
    IF isExpired \/ isStopped THEN "none"
    ELSE IF queue # <<>> THEN "item"
    ELSE "wait"

\* Variant: only a datagram ends the wait.
WfpDecideDataOnly(queue, isExpired, isStopped) ==
    IF queue # <<>> THEN "item" ELSE "wait"

\* One turn of the while True loop of wait_for_packet: "item" when the queue of
\* can_id is non-empty, else "none" when remaining <= 0 or stop is set, else "wait".
WfpDecide(queue, isExpired, isStopped) ==
    IF queue # <<>> THEN "item"
    ELSE IF isExpired \/ isStopped THEN "none"
    ELSE "wait"

\* Variant: the deadline is taken anew from the full timeout at every turn of
\* the loop, so no turn finds it passed.
PastDeadlineRearmed(isExpired) == FALSE

\* remaining = deadline - time.time(); remaining <= 0, against the deadline
\* that was computed once, before the loop.
PastDeadline(isExpired) == isExpired

\* with self._cond: one turn of the loop, up to the return or to
\* self._cond.wait(remaining), which gives the lock up.  A thread that wait()
\* has woken comes back here.
WfpCheck(t) ==
    /\ pc[t] = "wfp_enter"
    /\ LET queue == MailboxGet(mailbox, base_id[t])
           d == WfpDecide(queue, PastDeadline(expired[t]), stop)
       IN  /\ pc' = [pc EXCEPT ![t] = IF d = "wait" THEN "wfp_wait" ELSE "got_resp"]
           /\ IF d = "item"
              THEN /\ udp_resp' = [udp_resp EXCEPT ![t] = <<Head(queue)>>]
                   /\ mailbox' = MailboxPop(mailbox, base_id[t])
                   /\ delivered' =
                         [k \in DOMAIN delivered \cup {Head(queue).seq} |->
                             IF k = Head(queue).seq
                             THEN (IF k \in DOMAIN delivered THEN delivered[k] ELSE 0) + 1
                             ELSE delivered[k]]
              ELSE UNCHANGED << udp_resp, mailbox, delivered >>
    /\ UNCHANGED << cfgVars, stop, running, sockOpen, sendOwner, rxPc, rxItem,
                    can_sock, base_id, payload, frame_bytes, expired, stats,
                    envVars, mainVars, nrecv >>

\* The deadline of the current bounded wait passes; self._cond.wait(remaining)
\* then returns.
Expire(t) ==
    /\ DeadlineMayPass
    /\ pc[t] \in {"wfp_enter", "wfp_wait", "can_wait", "can_recv", "can_check"}
    /\ ~expired[t]
    /\ expired' = [expired EXCEPT ![t] = TRUE]
    /\ pc' = [pc EXCEPT ![t] = IF @ = "wfp_wait" THEN "wfp_enter" ELSE @]
    /\ UNCHANGED << cfgVars, stop, portVars, can_sock, base_id, payload, udp_resp,
                    frame_bytes,
                    stats, envVars, mainVars, nrecv, delivered >>

\* self._cond.wait(remaining) returns early, neither notified nor timed out.
SpuriousWake(t) ==
    /\ pc[t] = "wfp_wait"
    /\ pc' = [pc EXCEPT ![t] = "wfp_enter"]
    /\ UNCHANGED << cfgVars, stop, portVars, can_sock, cycleVars, envVars,
                    mainVars, nrecv, delivered >>

\* Variant: only the identifier is compared.
ResponseMismatchIdOnly(item, sent_id, sent_payload) == item.can_id # sent_id

\* if packet_id != base_id or udp_payload != payload
ResponseMismatch(item, sent_id, sent_payload) ==
    item.can_id # sent_id \/ item.payload # sent_payload

\* Variant: a mismatching reply is treated like no reply.
CheckOutcomeMismatchAsTimeout(resp, sent_id, sent_payload) ==
    IF resp = <<>> THEN "udp_timeout"
    ELSE IF ResponseMismatch(resp[1], sent_id, sent_payload) THEN "udp_timeout"
    ELSE "success"

\* Variant: any reply is taken for the echo of the frame sent.
CheckOutcomeIgnoresMismatch(resp, sent_id, sent_payload) ==
    IF resp = <<>> THEN "udp_timeout" ELSE "success"

\* Lines 215-224: None -> udp_timeout; mismatch -> data_error; else go on.
CheckOutcome(resp, sent_id, sent_payload) ==
    IF resp = <<>> THEN "udp_timeout"
    ELSE IF ResponseMismatch(resp[1], sent_id, sent_payload) THEN "data_error"
    ELSE "success"

CheckResp(t) ==
    /\ pc[t] = "got_resp"
    /\ LET oc == CheckOutcome(udp_resp[t], base_id[t], payload[t])
       IN  IF oc = "success"
           THEN /\ pc' = [pc EXCEPT ![t] = "echo_udp"]
                /\ UNCHANGED << stats, base_id, payload, udp_resp, frame_bytes, expired >>
           ELSE Finish(t, oc, "loop")
    /\ inflight' = inflight \ {t}
    /\ UNCHANGED << cfgVars, stop, portVars, can_sock, envVars, mainPc, repPc,
                    nrecv, delivered >>

\* Variant: the datagram is packed again from its unpacked fields.
EchoBytesRepacked(item) == UdpPack(item.info, U32(item.can_id), item.payload)

\* packet_bytes, info, packet_id, udp_payload = udp_resp;
\* send_to_bridge(packet_bytes): the bytes handed to sendto.
EchoBytes(item) == item.packet

\* send_to_bridge: with self._send_lock
SendAcquire(t) ==
    /\ pc[t] = "echo_udp"
    /\ LockFree(sendOwner)
    /\ sendOwner' = t
    /\ pc' = [pc EXCEPT ![t] = "sendto"]
    /\ UNCHANGED << cfgVars, stop, mailbox, running, sockOpen, rxPc, rxItem,
                    can_sock, cycleVars, envVars, mainVars, nrecv, delivered >>

\* self.sock.sendto(payload, ...): sends packet_bytes, or raises OSError (always
\* once the socket is closed); the send lock is released.  On success
\* _wait_for_can_echo(base_id, payload, 0.5) is entered.
SendTo(t) ==
    /\ pc[t] = "sendto"
    /\ sendOwner = t
    /\ sendOwner' = "free"
    /\ \E ok \in (IF sockOpen THEN SendOutcomes ELSE {FALSE}) :
          IF ok
          THEN /\ bridgeUdp' =
                     IF peer \in {"echo", "corrupt", "any"}
                     THEN [bridgeUdp EXCEPT ![t] = Append(@, EchoBytes(udp_resp[t][1]))]
                     ELSE bridgeUdp
               /\ GoOn(t, "can_wait")
          ELSE /\ Finish(t, "send_error", NextAfterSendError("sendto"))
               /\ UNCHANGED bridgeUdp
    /\ UNCHANGED << cfgVars, stop, mailbox, running, sockOpen, rxPc, rxItem,
                    can_sock, bridgeCan, mainVars, nrecv, delivered >>

\* _wait_for_can_echo: while not stop: remaining = deadline - now;
\* if remaining <= 0: return False.  False is recorded as can_timeout.
CanEchoLoop(t) ==
    /\ pc[t] = "can_wait"
    /\ IF stop \/ expired[t]
       THEN Finish(t, "can_timeout", "loop")
       ELSE /\ pc' = [pc EXCEPT ![t] = "can_recv"]
            /\ UNCHANGED << stats, base_id, payload, udp_resp, frame_bytes, expired >>
    /\ UNCHANGED << cfgVars, stop, portVars, can_sock, envVars, mainVars,
                    nrecv, delivered >>

\* data[:dlc]
Prefix(s, n) == SubSeq(s, 1, IF n < Len(s) THEN n ELSE Len(s))

\* Variant: all 8 data bytes are compared, whatever length the frame declares.
EchoMatchWholeData(bytes, expected_id, expected_payload) ==
    LET f == CanUnpack(bytes)
    IN  /\ U32Value(AndEffMask(f.can_id)) = expected_id
        /\ f.data = expected_payload

\* actual_id = can_id & CAN_EFF_MASK
\* actual_id == expected_id and data[:dlc] == expected_payload[:dlc]
EchoMatch(bytes, expected_id, expected_payload) ==
    LET f == CanUnpack(bytes)
    IN  /\ U32Value(AndEffMask(f.can_id)) = expected_id
        /\ Prefix(f.data, f.dlc) = Prefix(expected_payload, f.dlc)

\* self.can_sock.recvfrom(16) with timeout remaining: a frame, socket.timeout
\* once the deadline has passed, or OSError.
CanRecvOutcomes(t) ==
    (IF expired[t] THEN {[kind |-> "timeout", bytes |-> <<>>]} ELSE {})
    \cup
    (CASE Arbitrary ->
             {[kind |-> "frame", bytes |-> b] : b \in AnyCanFrames}
                 \cup {[kind |-> "oserror", bytes |-> <<>>]}
       [] peer \in {"echo", "corrupt"} ->
             IF bridgeUdp[t] = <<>> THEN {}
             ELSE {[kind |-> "frame", bytes |-> UdpToCan(Head(bridgeUdp[t]))]}
       [] OTHER -> {})

CanEchoRecv(t) ==
    /\ pc[t] = "can_recv"
    /\ \E r \in CanRecvOutcomes(t) :
          /\ bridgeUdp' = IF r.kind = "frame" /\ peer \in {"echo", "corrupt"}
                          THEN [bridgeUdp EXCEPT ![t] = Tail(@)] ELSE bridgeUdp
          /\ CASE r.kind = "oserror" -> Finish(t, "can_timeout", "loop")
               [] r.kind = "timeout" ->
                     /\ pc' = [pc EXCEPT ![t] = "can_wait"]
                     /\ UNCHANGED << stats, base_id, payload, udp_resp, frame_bytes, expired >>
               [] r.kind = "frame" ->
                     /\ frame_bytes' = [frame_bytes EXCEPT ![t] = << r.bytes >>]
                     /\ pc' = [pc EXCEPT ![t] = "can_check"]
                     /\ UNCHANGED << stats, base_id, payload, udp_resp, expired >>
    /\ UNCHANGED << cfgVars, stop, portVars, can_sock, bridgeCan, mainVars,
                    nrecv, delivered >>

\* can_id, dlc, _, data = CAN_STRUCT.unpack(frame_bytes); on a match return
\* True, which is recorded as success; else the loop goes round, and the
\* frame is dropped.
CanEchoCheck(t) ==
    /\ pc[t] = "can_check"
    /\ IF EchoMatch(frame_bytes[t][1], base_id[t], payload[t])
       THEN Finish(t, "success", "loop")
       ELSE /\ pc' = [pc EXCEPT ![t] = "can_wait"]
            /\ frame_bytes' = [frame_bytes EXCEPT ![t] = <<>>]
            /\ UNCHANGED << stats, base_id, payload, udp_resp, expired >>
    /\ UNCHANGED << cfgVars, stop, portVars, can_sock, envVars, mainVars,
                    nrecv, delivered >>

\* ------------------------------------------------------------ main
testerVars == << pc, can_sock, cycleVars >>

\* The steps of the finally block that every exit of the try block runs first:
\* stop_event.set(); for runner in runners: runner.join(timeout=1.0).  Each join
\* returns when the thread has ended or after its timeout, and changes nothing.
EnterFinally ==
    /\ stop' = TRUE
    /\ mainPc' = "close_flag"
    /\ UNCHANGED << cfgVars, portVars, testerVars, envVars, repPc, nrecv,
                    delivered, inflight >>

\* KeyboardInterrupt in the try block.
MainInterrupt ==
    /\ mainPc = "run"
    /\ EnterFinally

\* while any(runner.is_alive() for runner in runners) ends by itself.
MainLoopExit ==
    /\ mainPc = "run"
    /\ \A t \in Testers : pc[t] = "done"
    /\ EnterFinally

\* PortContext.close: self._running = False
CloseFlag ==
    /\ mainPc = "close_flag"
    /\ running' = FALSE
    /\ mainPc' = "close_notify"
    /\ inflight' = {t \in Testers : pc[t] = "wfp_wait"}
    /\ UNCHANGED << cfgVars, stop, mailbox, sockOpen, sendOwner, rxPc, rxItem,
                    testerVars, envVars, repPc, nrecv, delivered >>

\* PortContext.close: with self._cond: self._cond.notify_all()
CloseNotify ==
    /\ mainPc = "close_notify"
    /\ pc' = NotifyAll(pc)
    /\ mainPc' = "close_sock"
    /\ UNCHANGED << cfgVars, stop, portVars, can_sock, cycleVars, envVars, repPc,
                    nrecv, delivered, inflight >>

\* PortContext.close: self.sock.close(); self._rx_thread.join(timeout=1.0);
\* then, back in main, reporter.join(timeout=1.0).
CloseSock ==
    /\ mainPc = "close_sock"
    /\ sockOpen' = FALSE
    /\ mainPc' = "summary"
    /\ UNCHANGED << cfgVars, stop, mailbox, running, sendOwner, rxPc, rxItem,
                    testerVars, envVars, repPc, nrecv, delivered, inflight >>

\* The final summary: one snapshot() per runner, printed.
MainSummary ==
    /\ mainPc = "summary"
    /\ mainPc' = "done"
    /\ UNCHANGED << cfgVars, stop, portVars, testerVars, envVars, repPc,
                    nrecv, delivered, inflight >>

\* ------------------------------------------------------------ reporter_loop
\* while not stop_event.is_set()
RepLoopTest ==
    /\ repPc = "loop"
    /\ repPc' = IF ~stop THEN "sleep" ELSE "done"
    /\ UNCHANGED << cfgVars, stop, portVars, testerVars, envVars, mainPc,
                    nrecv, delivered, inflight >>

\* time.sleep(interval); for runner in runners: snap = runner.stats.snapshot();
\* the lines are printed.  Nothing the harness reads later is changed
\* (last_success only feeds the printed rate).
RepReport ==
    /\ repPc = "sleep"
    /\ repPc' = "loop"
    /\ UNCHANGED << cfgVars, stop, portVars, testerVars, envVars, mainPc,
                    nrecv, delivered, inflight >>

\* ------------------------------------------------------------ specification
RxStep == RxLoopTest \/ RxRecv \/ RxEnqueue

TesterStep(t) ==
    \/ RunOpen(t) \/ LoopTest(t) \/ SendCan(t) \/ Backoff(t)
    \/ WfpCheck(t) \/ CheckResp(t)
    \/ SendAcquire(t) \/ SendTo(t) \/ CanEchoLoop(t) \/ CanEchoRecv(t)
    \/ CanEchoCheck(t)

MainStep == MainLoopExit \/ CloseFlag \/ CloseNotify \/ CloseSock \/ MainSummary

RepStep == RepLoopTest \/ RepReport

TimeStep(t) == Expire(t) \/ SpuriousWake(t)

\* The whole harness: two channels on one port, every thread.
Next ==
    \/ RxStep
    \/ \E t \in Testers : TesterStep(t) \/ TimeStep(t)
    \/ MainInterrupt \/ MainStep
    \/ RepStep

Spec == Init /\ [][Next]_vars

\* The port multiplexer and its testers up to the stop signal: the receive loop,
\* two testers whose ranges overlap, and main's interrupt.
NextMux ==
    \/ RxStep
    \/ \E t \in Testers : TesterStep(t) \/ TimeStep(t)
    \/ MainInterrupt

SpecMux == Init /\ [][NextMux]_vars

\* Every running thread takes its next step sooner or later, and the deadline
\* of a bounded wait passes.  The interrupt itself is not forced.
FairWorkers(T) ==
    /\ WF_vars(RxStep)
    /\ \A t \in T : WF_vars(TesterStep(t)) /\ WF_vars(Expire(t))

FairMux == SpecMux /\ FairWorkers({"t1", "t2"})

\* One channel on the port, every thread, through the whole shutdown.
InitOne(p) ==
    /\ peer = p
    /\ channels = [t \in {"t1"} |-> [id_min |-> 2047, id_max |-> 2047]]
    /\ InitThreads

\* The peer may send any datagram, also a malformed one of 13 bytes or more.
SpecOne == InitOne("any") /\ [][Next]_vars

FairOne ==
    /\ InitOne("any13") /\ [][Next]_vars
    /\ FairWorkers({"t1"}) /\ WF_vars(MainStep) /\ WF_vars(RepStep)

\* One channel on the port and its receive loop, up to the stop signal, with
\* a peer that may send any datagram.
SpecTester == InitOne("any") /\ [][NextMux]_vars

\* ------------------------------------------------------------ end-to-end scenarios
\* One channel with the range [0x100, 0x100] on the port; the CAN device and the
\* sockets work.  The operator's interrupt may end the run at any moment.
InitScenario(p) ==
    /\ peer = p
    /\ channels = [t \in {"t1"} |-> [id_min |-> 256, id_max |-> 256]]
    /\ InitThreads

\* The peer echoes every CAN frame as a datagram and every datagram sent to its
\* listen port as a CAN frame, within the 0.5 s waits.
NextEcho ==
    \/ RxStep
    \/ \E t \in Testers :
          \/ RunOpen(t) \/ LoopTest(t) \/ SendCan(t) \/ WfpCheck(t) \/ SpuriousWake(t)
          \/ CheckResp(t) \/ SendAcquire(t) \/ SendTo(t)
          \/ CanEchoLoop(t) \/ CanEchoRecv(t) \/ CanEchoCheck(t)
    \/ MainInterrupt
    \/ RepStep

SpecEcho == InitScenario("echo") /\ [][NextEcho]_vars

\* The peer never sends a datagram.
NextSilent ==
    \/ RxLoopTest \/ RxRecv
    \/ \E t \in Testers :
          \/ RunOpen(t) \/ LoopTest(t) \/ SendCan(t) \/ WfpCheck(t)
          \/ Expire(t) \/ SpuriousWake(t) \/ CheckResp(t)
    \/ MainInterrupt
    \/ RepStep

SpecSilent == InitScenario("silent") /\ [][NextSilent]_vars

\* The peer echoes every CAN frame as a datagram with the right identifier and
\* one corrupted payload byte.
NextCorrupt ==
    \/ RxStep
    \/ \E t \in Testers :
          \/ RunOpen(t) \/ LoopTest(t) \/ SendCan(t) \/ WfpCheck(t) \/ SpuriousWake(t)
          \/ CheckResp(t)
    \/ MainInterrupt
    \/ RepStep

SpecCorrupt == InitScenario("corrupt") /\ [][NextCorrupt]_vars

\* ------------------------------------------------------------ properties
\* The tester is inside wait_for_packet.
InWait(t) == pc[t] \in {"wfp_enter", "wfp_wait"}

\* wait_for_packet has returned an item to the tester.
Holds(t) == pc[t] = "got_resp" /\ udp_resp[t] # <<>>

\* C1: no cross-delivery.  Every item is queued under the identifier its
\* datagram carries, and the item wait_for_packet(X, ...) hands to a tester has
\* can_id = X, the identifier found in bytes 2..5 of the datagram.
C1_NoCrossDelivery ==
    /\ \A k \in DOMAIN mailbox : \A i \in 1..Len(mailbox[k]) :
           mailbox[k][i].can_id = k
    /\ \A t \in Testers :
           udp_resp[t] # <<>> =>
               /\ udp_resp[t][1].can_id = base_id[t]
               /\ U32Value(SubSeq(udp_resp[t][1].packet, 2, 5)) = base_id[t]

\* C1 happens: the second tester holds the datagram of 0x800 it waited for while
\* the first one is still waiting for 0x7FF.
C1_Witness ==
    /\ Holds("t2") /\ base_id["t2"] = 2048
    /\ InWait("t1") /\ base_id["t1"] = 2047

\* C2: a datagram the receive loop has enqueued is returned by at most one
\* wait_for_packet call, and once returned it is in no queue any more.
C2_AtMostOnce ==
    /\ \A d \in DOMAIN delivered : delivered[d] <= 1
    /\ \A t \in Testers : udp_resp[t] # <<>> =>
           \A k \in DOMAIN mailbox : \A i \in 1..Len(mailbox[k]) :
               mailbox[k][i].seq # udp_resp[t][1].seq

\* C2 happens: both testers called wait_for_packet(0x7FF), one datagram of
\* 0x7FF arrived, one of them holds it and the other one is still in its call
\* with nothing left to take.
C2_Witness ==
    /\ nrecv = 1
    /\ base_id["t1"] = 2047 /\ base_id["t2"] = 2047
    /\ \/ Holds("t1") /\ InWait("t2")
       \/ Holds("t2") /\ InWait("t1")
    /\ mailbox = [k \in {} |-> <<>>]

\* Tester t is inside wait_for_packet(id, ...) and a datagram of id is queued.
AwaitedIsQueued(t, id) ==
    InWait(t) /\ base_id[t] = id /\ MailboxGet(mailbox, id) # <<>>

\* wait_for_packet(id, ...) has returned a datagram to tester t.
ReturnedTo(t, id) == Holds(t) /\ base_id[t] = id

\* C3: no head-of-line blocking.  A caller that takes its turn in
\* wait_for_packet while a datagram of its identifier is queued returns the
\* head of that queue in that very turn, whatever is queued under other
\* identifiers and whoever else is waiting, even if its deadline has passed or
\* stop is set.  And the turn comes: 0x800 is awaited by the second tester
\* only, and whenever it is inside wait_for_packet(0x800) with a datagram of
\* 0x800 queued, the call returns a datagram.
C3_NoHeadOfLineBlocking ==
    /\ [][\A t \in Testers :
              (/\ pc[t] = "wfp_enter"
               /\ MailboxGet(mailbox, base_id[t]) # <<>>
               /\ pc'[t] # pc[t]) =>
                  /\ pc'[t] = "got_resp"
                  /\ udp_resp'[t] = <<Head(MailboxGet(mailbox, base_id[t]))>>]_vars
    /\ AwaitedIsQueued("t2", 2048) ~> ReturnedTo("t2", 2048)

\* C3 happens: the second tester holds the datagram of 0x800, which arrived
\* after a datagram of 0x7FF that nobody has taken, while the first tester's
\* wait for 0x7FF has timed out.
C3_Witness ==
    /\ ReturnedTo("t2", 2048) /\ udp_resp["t2"][1].seq = 2
    /\ MailboxGet(mailbox, 2047) # <<>>
    /\ pc["t1"] = "got_resp" /\ udp_resp["t1"] = <<>> /\ expired["t1"]

\* The reply a tester holds differs from what its cycle sent on CAN.
Mismatching(t) ==
    /\ Holds(t)
    /\ \/ udp_resp[t][1].can_id # base_id[t]
       \/ udp_resp[t][1].payload # payload[t]

\* C4: the step of run() that acts on a reply whose identifier or payload
\* differs from what the cycle sent ends the cycle with data_error: data_errors
\* and total go up by one and success is left alone.
C4_MismatchIsDataError ==
    [][\A t \in Testers :
          (Mismatching(t) /\ pc'[t] # pc[t]) =>
              /\ pc'[t] = "loop"
              /\ stats'[t].total = stats[t].total + 1
              /\ stats'[t].data_errors = stats[t].data_errors + 1
              /\ stats'[t].success = stats[t].success]_vars

\* C4 happens: a tester's first cycle received a mismatching reply and has
\* been recorded.
C4_Witness ==
    \E t \in Testers :
        /\ pc[t] = "loop"
        /\ stats[t].total = 1 /\ stats[t].data_errors = 1 /\ stats[t].success = 0

\* Every thread of the harness has ended.
AllThreadsDone ==
    /\ \A t \in Testers : pc[t] = "done"
    /\ rxPc = "done"
    /\ repPc = "done"

\* C5: once the stop signal is set, every tester, the receive loop and the
\* reporter end, wherever they were when it was set.
C5_StopTerminatesAll == stop ~> AllThreadsDone

\* C5 happens: stop is set while the tester is blocked in the UDP wait or in the
\* CAN echo wait and the receive loop and the reporter are still running.
C5_Witness ==
    /\ stop
    /\ \E t \in Testers : pc[t] \in {"wfp_wait", "can_recv"}
    /\ rxPc # "done" /\ repPc # "done"

\* C6, as the specification states it: a wait_for_packet call that was blocked
\* when close() was invoked returns None.
C6_InFlightReturnsNone ==
    \A t \in inflight : pc[t] = "got_resp" => udp_resp[t] = <<>>

\* C6, amended: a wait_for_packet call that was blocked when close() was
\* invoked returns at its next turn of the loop, and it does get that turn; it
\* returns None unless a datagram of its identifier is queued at that moment,
\* and then it returns the head of that queue.
C6_InFlightReturns ==
    /\ [][\A t \in inflight :
              (pc[t] = "wfp_enter" /\ pc'[t] # pc[t]) =>
                  /\ pc'[t] = "got_resp"
                  /\ udp_resp'[t] =
                         IF MailboxGet(mailbox, base_id[t]) = <<>> THEN <<>>
                         ELSE <<Head(MailboxGet(mailbox, base_id[t]))>>]_vars
    /\ ("t1" \in inflight /\ InWait("t1")) ~> ("t1" \in inflight /\ pc["t1"] = "got_resp")

\* C6 happens: close() has notified, and a call that was blocked when it was
\* invoked has returned None.
C6_Witness ==
    /\ mainPc \in {"close_sock", "summary", "done"}
    /\ \E t \in inflight : pc[t] = "got_resp" /\ udp_resp[t] = <<>>

\* The counters of a tester other than total and success are all zero.
OnlySuccesses(st) ==
    /\ st.success = st.total
    /\ st.udp_timeouts = 0 /\ st.can_timeouts = 0
    /\ st.data_errors = 0 /\ st.send_errors = 0

C8_SilentAllUdpTimeout ==
    \A t \in Testers :
        stats[t].udp_timeouts = stats[t].total /\ stats[t].success = 0

\* C8 happens: the channel has completed MaxCycles cycles with the silent peer.
C8_Witness ==
    /\ peer = "silent" /\ ~stop
    /\ stats["t1"].total = MaxCycles /\ stats["t1"].udp_timeouts = MaxCycles

C10_OnlyExactSize ==
    /\ \A k \in DOMAIN mailbox : \A i \in 1..Len(mailbox[k]) :
           Len(mailbox[k][i].packet) = UDP_SIZE
    /\ \A t \in Testers :
           udp_resp[t] # <<>> => Len(udp_resp[t][1].packet) = UDP_SIZE

\* ------------------------------------------------------------ ChannelStats, by statement
\* One ChannelStats object, the tester thread that calls record() on it once
\* per cycle, and a thread (reporter_loop, or main for the summary) that calls
\* snapshot() on it.  Each statement of the two methods is one step.
Outcomes == {"success", "udp_timeout", "can_timeout", "data_error", "send_error"}

\* Variant: snapshot() hands out the object's own attribute dict.
SnapshotResultShared(d) == [shared |-> TRUE, val |-> d]

\* snapshot() returns a new dict whose values are ints: its own copy.
SnapshotResult(d) == [shared |-> FALSE, val |-> d]

\* What the holder of a returned dict reads from it.
SnapView == IF snap[1].shared THEN cstats ELSE snap[1].val

\* run() calls self.stats.record(outcome, base_id), at most MaxCycles times.
RecCall ==
    /\ recPc = "idle"
    /\ Cardinality(commits) <= MaxCycles
    /\ \E oc \in Outcomes, id \in channels["t1"].id_min .. channels["t1"].id_max :
          recArg' = << [outcome |-> oc, test_id |-> id, before |-> cstats] >>
    /\ recPc' = "acquire"
    /\ UNCHANGED << harnessVars, startVars, codecVars, cstats, lock, snapPc, snapTmp, snap, commits >>

\* with self.lock:
RecAcquire ==
    /\ recPc = "acquire"
    /\ LockFree(lock)
    /\ lock' = "record"
    /\ recPc' = "total"
    /\ UNCHANGED << harnessVars, startVars, codecVars, cstats, recArg, snapPc, snapTmp, snap, commits >>

\* self.total += 1
RecTotal ==
    /\ recPc = "total"
    /\ cstats' = [cstats EXCEPT !.total = @ + 1]
    /\ recPc' = "last_id"
    /\ UNCHANGED << harnessVars, startVars, codecVars, lock, recArg, snapPc, snapTmp, snap, commits >>

\* self.last_id = test_id
RecLastId ==
    /\ recPc = "last_id"
    /\ cstats' = [cstats EXCEPT !.last_id = recArg[1].test_id]
    /\ recPc' = "counter"
    /\ UNCHANGED << harnessVars, startVars, codecVars, lock, recArg, snapPc, snapTmp, snap, commits >>

\* if outcome == "success": self.success += 1  elif ... ; the with block ends
RecCounter ==
    /\ recPc = "counter"
    /\ LET oc == recArg[1].outcome
       IN  cstats' =
             [cstats EXCEPT
                !.success = IF oc = "success" THEN @ + 1 ELSE @,
                !.udp_timeouts = IF oc = "udp_timeout" THEN @ + 1 ELSE @,
                !.can_timeouts = IF oc = "can_timeout" THEN @ + 1 ELSE @,
                !.data_errors = IF oc = "data_error" THEN @ + 1 ELSE @,
                !.send_errors = IF oc = "send_error" THEN @ + 1 ELSE @]
    /\ lock' = IF lock = "record" THEN "free" ELSE lock
    /\ recPc' = "idle"
    /\ commits' = commits \cup {cstats'}
    /\ UNCHANGED << harnessVars, startVars, codecVars, recArg, snapPc, snapTmp, snap >>

\* snap = runner.stats.snapshot()
SnapCall ==
    /\ snapPc = "idle"
    /\ snapPc' = "acquire"
    /\ UNCHANGED << harnessVars, startVars, codecVars, cstats, lock, recPc, recArg, snapTmp, snap, commits >>

\* with self.lock:
SnapAcquire ==
    /\ snapPc = "acquire"
    /\ LockFree(lock)
    /\ lock' = "snapshot"
    /\ snapPc' = "total"
    /\ UNCHANGED << harnessVars, startVars, codecVars, cstats, recPc, recArg, snapTmp, snap, commits >>

\* "total": self.total
SnapTotal ==
    /\ snapPc = "total"
    /\ snapTmp' = [NewStats EXCEPT !.total = cstats.total]
    /\ snapPc' = "counters"
    /\ UNCHANGED << harnessVars, startVars, codecVars, cstats, lock, recPc, recArg, snap, commits >>

\* "success": self.success, ..., "send_errors": self.send_errors
SnapCounters ==
    /\ snapPc = "counters"
    /\ snapTmp' = [snapTmp EXCEPT !.success = cstats.success,
                                  !.udp_timeouts = cstats.udp_timeouts,
                                  !.can_timeouts = cstats.can_timeouts,
                                  !.data_errors = cstats.data_errors,
                                  !.send_errors = cstats.send_errors]
    /\ snapPc' = "last_id"
    /\ UNCHANGED << harnessVars, startVars, codecVars, cstats, lock, recPc, recArg, snap, commits >>

\* "last_id": self.last_id; return {...}; the with block ends
SnapReturn ==
    /\ snapPc = "last_id"
    /\ snap' = << SnapshotResult([snapTmp EXCEPT !.last_id = cstats.last_id]) >>
    /\ snapTmp' = NewStats
    /\ lock' = IF lock = "snapshot" THEN "free" ELSE lock
    /\ snapPc' = "idle"
    /\ UNCHANGED << harnessVars, startVars, codecVars, cstats, recPc, recArg, commits >>

RecStep == RecCall \/ RecAcquire \/ RecTotal \/ RecLastId \/ RecCounter
SnapStep == SnapCall \/ SnapAcquire \/ SnapTotal \/ SnapCounters \/ SnapReturn

NextStats == RecStep \/ SnapStep

\* One channel with two identifiers; only the two threads that use its
\* ChannelStats are followed.
InitStats ==
    /\ peer = "silent"
    /\ channels = [t \in {"t1"} |-> [id_min |-> 2047, id_max |-> 2048]]
    /\ InitThreads

SpecStats == InitStats /\ [][NextStats]_vars

\* The sum of the five outcome counters of a dict.
OutcomeSum(d) ==
    d.success + d.udp_timeouts + d.can_timeouts + d.data_errors + d.send_errors

\* The counter record() increments for an outcome.
CounterOf(d, oc) ==
    CASE oc = "success" -> d.success
      [] oc = "udp_timeout" -> d.udp_timeouts
      [] oc = "can_timeout" -> d.can_timeouts
      [] oc = "data_error" -> d.data_errors
      [] oc = "send_error" -> d.send_errors

\* C12: once record(outcome, id) has returned, total and exactly the counter
\* of that outcome are one more than when it was called, the other counters
\* are as they were, and last_id is id; and every dict snapshot() returns,
\* whatever record() was doing meanwhile, has total equal to the sum of its
\* five outcome counters.
C12_RecordAtomicSumHolds ==
    /\ (recPc = "idle" /\ recArg # <<>>) =>
          LET a == recArg[1]
          IN  /\ cstats.total = a.before.total + 1
              /\ cstats.last_id = a.test_id
              /\ \A oc \in Outcomes :
                    CounterOf(cstats, oc) =
                      CounterOf(a.before, oc) + (IF oc = a.outcome THEN 1 ELSE 0)
    /\ snap # <<>> => SnapView.total = OutcomeSum(SnapView)

\* C12 witness: a dict returned after one completed record(), held while the
\* next record() has incremented total and not yet its outcome counter.
C12_Witness ==
    /\ snap # <<>>
    /\ SnapView.total = 1
    /\ OutcomeSum(SnapView) = 1
    /\ recPc = "counter"
    /\ cstats.total = 2
    /\ OutcomeSum(cstats) = 1

\* C13: no step changes what a returned dict holds until snapshot() returns
\* the next one, so record() calls after it cannot be seen through it; and
\* what it holds is the counters as they were between two record() calls,
\* never those of a record() that has updated only some of them.
C13_SnapshotIndependent ==
    /\ [][(snap # <<>> /\ snap' = snap) => SnapView' = SnapView]_vars
    /\ [](snap # <<>> => SnapView \in commits)

\* C13 witness: a record() has completed after the dict was returned, and
\* the dict still holds the earlier counters.
C13_Witness ==
    /\ snap # <<>>
    /\ SnapView.total = 1
    /\ cstats.total = 2
    /\ recPc = "idle"

\* ------------------------------------------------------------ main, start and exit
\* main() from the configuration to the exit of the process.  The threads it
\* starts are followed only as alive or ended; a ports entry has at most one
\* channel, so a ChannelTester is named by the index of its port.
MaxPorts == 2

\* A key of a ports entry is <<>> when absent, <<n>> when present.
PortEntries ==
    [udp_listen_port : {<<>>, <<9000>>}, udp_send_port : {<<>>, <<9001>>},
     udp_port : {<<>>, <<9002>>}, channels : 0..1]

RECURSIVE SeqsUpTo(_, _)
SeqsUpTo(S, n) ==
    IF n = 0 THEN {<<>>}
    ELSE LET shorter == SeqsUpTo(S, n - 1)
         IN  shorter \cup {Append(q, e) : q \in {r \in shorter : Len(r) = n - 1}, e \in S}

\* port_cfg.get(key) or port_cfg.get("udp_port")
resolve_port(value, udp_port) == IF value # <<>> THEN value ELSE udp_port

\* listen_port is None or send_port is None
PortMissing(port_cfg) ==
    \/ resolve_port(port_cfg.udp_listen_port, port_cfg.udp_port) = <<>>
    \/ resolve_port(port_cfg.udp_send_port, port_cfg.udp_port) = <<>>

\* sys.exit(1): the process ends, and its daemon threads with it.
Exit(code, how) ==
    /\ exitCode' = code
    /\ ending' = how
    /\ startPc' = "exited"

\* ports_cfg = config.get("ports"); if not ports_cfg: sys.exit(1)
StartCheck ==
    /\ startPc = "check"
    /\ IF ports_cfg = <<>>
       THEN Exit(1, "no_ports")
       ELSE /\ startPc' = "port_loop"
            /\ UNCHANGED << exitCode, ending >>
    /\ UNCHANGED << harnessVars, statVars, codecVars, ports_cfg, idx, port_contexts, closed,
                    rxAlive, runners, runnersAlive, openFailed, reporter >>

\* One round of the first for loop: resolve the two ports, exit if one is
\* missing, else construct the PortContext, start it and append it.
StartPort ==
    /\ startPc = "port_loop"
    /\ IF PortMissing(ports_cfg[idx])
       THEN /\ Exit(1, "port_missing")
            /\ UNCHANGED << idx, port_contexts, rxAlive >>
       ELSE /\ port_contexts' = port_contexts \cup {idx}
            /\ rxAlive' = rxAlive \cup {idx}
            /\ idx' = IF idx = Len(ports_cfg) THEN 1 ELSE idx + 1
            /\ startPc' = IF idx = Len(ports_cfg) THEN "runner_loop" ELSE startPc
            /\ UNCHANGED << exitCode, ending >>
    /\ UNCHANGED << harnessVars, statVars, codecVars, ports_cfg, closed, runners,
                    runnersAlive, openFailed, reporter >>

\* One round of the second for loop: skip a port without channels, else
\* construct and start a ChannelTester for its channel.
StartRunner ==
    /\ startPc = "runner_loop"
    /\ IF ports_cfg[idx].channels = 0
       THEN UNCHANGED << runners, runnersAlive >>
       ELSE /\ runners' = runners \cup {idx}
            /\ runnersAlive' = runnersAlive \cup {idx}
    /\ idx' = IF idx = Len(ports_cfg) THEN 1 ELSE idx + 1
    /\ startPc' = IF idx = Len(ports_cfg) THEN "runners_check" ELSE startPc
    /\ UNCHANGED << harnessVars, statVars, codecVars, ports_cfg, port_contexts, closed,
                    rxAlive, openFailed, reporter, exitCode, ending >>

\* Variant: the list of runners is never found empty.
NoRunnersNever(rs) == FALSE

\* not runners
NoRunners(rs) == rs = {}

\* if not runners: stop_event.set(), close every PortContext, sys.exit(1);
\* else start the reporter thread.  close() waits at most 1 s for the receive
\* thread, which may or may not have ended by then.
StartRunnersCheck ==
    /\ startPc = "runners_check"
    /\ IF NoRunners(runners)
       THEN /\ stop' = TRUE
            /\ closed' = port_contexts
            /\ \E ended \in SUBSET rxAlive : rxAlive' = rxAlive \ ended
            /\ Exit(1, "no_channel")
            /\ UNCHANGED reporter
       ELSE /\ reporter' = "alive"
            /\ startPc' = "run"
            /\ UNCHANGED << stop, closed, rxAlive, exitCode, ending >>
    /\ UNCHANGED << peer, channels, portVars, pc, can_sock, cycleVars, envVars,
                    mainVars, nrecv, delivered, statVars, codecVars, ports_cfg, idx,
                    port_contexts, runners, runnersAlive, openFailed >>

\* except KeyboardInterrupt
StartInterrupt ==
    /\ startPc = "run"
    /\ ending' = "interrupt"
    /\ startPc' = "finally"
    /\ UNCHANGED << harnessVars, statVars, codecVars, ports_cfg, idx, port_contexts, closed,
                    rxAlive, runners, runnersAlive, openFailed, reporter, exitCode >>

\* Variant: no runner is ever seen alive.
AnyRunnerAliveNever(alive) == FALSE

\* any(runner.is_alive() for runner in runners)
AnyRunnerAlive(alive) == alive # {}

\* while any(runner.is_alive() for runner in runners) ends
StartLoopExit ==
    /\ startPc = "run"
    /\ ~AnyRunnerAlive(runnersAlive)
    /\ ending' = "runners_ended"
    /\ startPc' = "finally"
    /\ UNCHANGED << harnessVars, statVars, codecVars, ports_cfg, idx, port_contexts, closed,
                    rxAlive, runners, runnersAlive, openFailed, reporter, exitCode >>

\* finally: stop_event.set(); runner.join(timeout=1.0) for every runner
StartSetStop ==
    /\ startPc = "finally"
    /\ stop' = TRUE
    /\ startPc' = "close"
    /\ UNCHANGED << peer, channels, portVars, pc, can_sock, cycleVars, envVars,
                    mainVars, nrecv, delivered, statVars, codecVars, ports_cfg, idx,
                    port_contexts, closed, rxAlive, runners, runnersAlive,
                    openFailed, reporter, exitCode, ending >>

\* port_ctx.close() for every PortContext; reporter.join(timeout=1.0)
StartClose ==
    /\ startPc = "close"
    /\ closed' = port_contexts
    /\ startPc' = "summary"
    /\ UNCHANGED << harnessVars, statVars, codecVars, ports_cfg, idx, port_contexts, rxAlive,
                    runners, runnersAlive, openFailed, reporter, exitCode, ending >>

\* The summary is printed and main() returns: the exit code is 0.
StartReturn ==
    /\ startPc = "summary"
    /\ exitCode' = 0
    /\ startPc' = "exited"
    /\ UNCHANGED << harnessVars, statVars, codecVars, ports_cfg, idx, port_contexts, closed,
                    rxAlive, runners, runnersAlive, openFailed, reporter, ending >>

\* A ChannelTester thread ends because open() returned False: the diagnostic
\* is printed and run() returns.
RunnerOpenFails(r) ==
    /\ startPc # "exited"
    /\ r \in runnersAlive
    /\ runnersAlive' = runnersAlive \ {r}
    /\ openFailed' = openFailed \cup {r}
    /\ UNCHANGED << harnessVars, statVars, codecVars, ports_cfg, startPc, idx, port_contexts,
                    closed, rxAlive, runners, reporter, exitCode, ending >>

\* A ChannelTester thread ends because the test of its while loop found the
\* stop event set.
RunnerStops(r) ==
    /\ startPc # "exited"
    /\ r \in runnersAlive
    /\ stop
    /\ runnersAlive' = runnersAlive \ {r}
    /\ UNCHANGED << harnessVars, statVars, codecVars, ports_cfg, startPc, idx, port_contexts,
                    closed, rxAlive, runners, openFailed, reporter, exitCode, ending >>

\* A receive thread ends: its loop test fails once close() has cleared
\* _running or the stop event is set.
RxExit(p) ==
    /\ startPc # "exited"
    /\ p \in rxAlive
    /\ stop \/ p \in closed
    /\ rxAlive' = rxAlive \ {p}
    /\ UNCHANGED << harnessVars, statVars, codecVars, ports_cfg, startPc, idx, port_contexts,
                    closed, runners, runnersAlive, openFailed, reporter, exitCode, ending >>

\* The reporter thread ends: its loop test fails once the stop event is set.
ReporterExit ==
    /\ startPc # "exited"
    /\ reporter = "alive"
    /\ stop
    /\ reporter' = "ended"
    /\ UNCHANGED << harnessVars, statVars, codecVars, ports_cfg, startPc, idx, port_contexts,
                    closed, rxAlive, runners, runnersAlive, openFailed, exitCode, ending >>

NextStart ==
    \/ StartCheck \/ StartPort \/ StartRunner \/ StartRunnersCheck
    \/ StartInterrupt \/ StartLoopExit \/ StartSetStop \/ StartClose \/ StartReturn
    \/ \E r \in runnersAlive : RunnerOpenFails(r) \/ RunnerStops(r)
    \/ \E p \in rxAlive : RxExit(p)
    \/ ReporterExit

\* Every ports list of at most MaxPorts entries.
InitStart ==
    /\ peer = "silent"
    /\ channels = [t \in {"t1"} |-> [id_min |-> 256, id_max |-> 256]]
    /\ ports_cfg \in SeqsUpTo(PortEntries, MaxPorts)
    /\ frameIn = <<>>
    /\ InitRest

SpecStart == InitStart /\ [][NextStart]_vars

\* The main thread goes on: the loop of main() tests the runners every 0.5 s,
\* and every step of the finally block returns, each join after 1 s at most.
FairStart ==
    /\ SpecStart
    /\ WF_vars(StartLoopExit \/ StartSetStop \/ StartClose \/ StartReturn)

\* C14, as the specification states it: when main() exits because there is no
\* ports entry, or because an entry lacks a port, no receive thread, tester
\* or reporter is running.
C14_AbortBeforeAnyThread ==
    ending \in {"no_ports", "port_missing"} =>
        /\ rxAlive = {}
        /\ runnersAlive = {}
        /\ reporter # "alive"

\* Every entry names its ports and none has a channel.
AllChannelsEmpty ==
    /\ ports_cfg # <<>>
    /\ \A i \in 1..Len(ports_cfg) :
          ~PortMissing(ports_cfg[i]) /\ ports_cfg[i].channels = 0

\* C15: when every port has an empty channels list, main() can only end by
\* the no-channel exit, and then the stop event is set, close() was called on
\* every PortContext that was created, no reporter was started and the exit
\* code is not 0; a run ended by an interrupt exits with code 0.
C15_NoChannelExit ==
    /\ (AllChannelsEmpty /\ startPc \in {"run", "finally", "close", "summary", "exited"})
          => ending = "no_channel"
    /\ ending = "no_channel" =>
          /\ AllChannelsEmpty
          /\ stop
          /\ port_contexts = 1..Len(ports_cfg)
          /\ closed = port_contexts
          /\ reporter = "none"
          /\ exitCode \notin {0, -1}
    /\ (ending = "interrupt" /\ startPc = "exited") => exitCode = 0

\* C15 witness: two ports, both without channels, and main() has exited.
C15_Witness ==
    /\ Len(ports_cfg) = 2
    /\ AllChannelsEmpty
    /\ startPc = "exited"
    /\ closed = {1, 2}
    /\ exitCode = 1

\* C16, as the specification states it: when the open() of a ChannelTester
\* has returned False and no interrupt ended the run, the process exits with
\* a code that is not 0.
C16_BindFailureFatal ==
    (openFailed # {} /\ ending # "interrupt" /\ startPc = "exited") => exitCode # 0

\* Every cycle the tester has completed so far has failed.
KeepsFailing(t) == stats[t].total >= 1 /\ stats[t].success = 0

\* C17: a step that records a failed cycle leaves its tester in the loop (at
\* the loop test, or in the pause before it), a tester that has started its
\* loop leaves it only at a loop test that finds the stop event set, and
\* while the first tester fails every cycle, a cycle the second tester has
\* started is completed.
C17_FailureDoesNotHaltOthers ==
    /\ [][\A t \in Testers :
            (stats'[t].total = stats[t].total + 1 /\ stats'[t].success = stats[t].success)
                => pc'[t] \in {"loop", "sleep"}]_vars
    /\ [][\A t \in Testers :
            (pc[t] # "done" /\ pc'[t] = "done")
                => (pc[t] = "start" \/ (pc[t] = "loop" /\ stop))]_vars
    /\ (KeepsFailing("t1") /\ pc["t2"] \in InCycle) ~> (pc["t2"] = "loop")

\* C17 witness: the first tester has failed its only cycle and the second has
\* then completed one with success.
C17_Witness ==
    /\ KeepsFailing("t1")
    /\ pc["t1"] = "loop"
    /\ stats["t2"].success = 1
    /\ pc["t2"] = "loop"

\* C18, as the specification states it: a ChannelTester thread that has ended
\* has no CAN socket left open, however run() ended.
C18_SocketClosedOnExit ==
    \A t \in Testers : pc[t] = "done" => can_sock[t] \in {"none", "closed"}

\* C19, as the specification states it: when main() takes the snapshots of
\* the summary every tester, the receive loop and the reporter have ended,
\* and no counter changes once the summary is printed.
C19_SummaryAfterAllThreads ==
    /\ [](mainPc = "summary" => AllThreadsDone)
    /\ [][mainPc = "done" => stats' = stats]_vars

\* C20: at most one tester at a time is inside sendto, and it is the one
\* that holds the send lock of the port.
C20_SendSerialized ==
    /\ Cardinality({t \in Testers : pc[t] = "sendto"}) <= 1
    /\ \A t \in Testers : pc[t] = "sendto" => sendOwner = t

\* C20 witness: one tester is inside sendto while the other has a datagram to
\* echo and waits for the send lock.
C20_Witness ==
    /\ pc["t1"] = "sendto"
    /\ pc["t2"] = "echo_udp"
    /\ sendOwner = "t1"

\* ------------------------------------------------------------ frame codec
\* The two wire formats as the scripts of the repository pack and unpack them,
\* applied to one frame: identifier, extended flag, payload bytes and declared
\* length.

\* data.ljust(8, b'\x00')
LJust8(data) == data \o [i \in 1..(8 - Len(data)) |-> 0]

\* data[:n]
Truncate(data, n) == SubSeq(data, 1, IF n < Len(data) THEN n ELSE Len(data))

\* Identifiers in range: 11 bits without the extended flag, 29 bits with it.
Frames ==
    [identifier : {0, 256, 2047}, extended : {FALSE},
     payload : Payloads, length : 0..8]
    \cup
    [identifier : {0, 2048, 536870911}, extended : {TRUE},
     payload : Payloads, length : 0..8]

\* struct.pack("=IB3s8s", can_id, data_len, b'\x00\x00\x00', data_padded), with
\* frame_id = base_id | CAN_EFF_FLAG for an extended frame.
EncodeCanFrame(f) ==
    CanPack(IF f.extended THEN OrEffFlag(U32(f.identifier)) ELSE U32(f.identifier),
            f.length, Pad3, LJust8(Truncate(f.payload, f.length)))

\* Variant: the identifier is read most significant byte first.
DecodeCanFrameBigEndian(b) ==
    [identifier |-> U32Value(AndEffMask(SubSeq(b, 1, 4))),
     extended |-> b[1] >= 128,
     length |-> b[5],
     payload |-> Truncate(SubSeq(b, 9, CAN_SIZE), b[5])]

\* can_id, dlc, _, data = CAN_STRUCT.unpack(frame_bytes);
\* can_id & CAN_EFF_MASK; data[:dlc]; the flag is bit 31 of can_id.
DecodeCanFrame(b) ==
    LET u == CanUnpack(b)
    IN  [identifier |-> U32Value(AndEffMask(u.can_id)),
         extended |-> u.can_id[1] >= 128,
         length |-> u.dlc,
         payload |-> Truncate(u.data, u.dlc)]

\* struct.pack(">BI8s", info, can_id, data), info = extended << 7 | length.
EncodeUdpFrame(f) ==
    UdpPack((IF f.extended THEN 128 ELSE 0) + f.length, U32(f.identifier),
            LJust8(Truncate(f.payload, f.length)))

\* info, can_id, can_data = struct.unpack(">BI8s", data);
\* is_ext = bool(info & 0x80); dlc = info & 0x0F; can_data[:dlc]
DecodeUdpFrame(b) ==
    LET u == UdpUnpack(b)
    IN  [identifier |-> U32Value(u.can_id),
         extended |-> u.info >= 128,
         length |-> u.info % 16,
         payload |-> Truncate(u.payload, u.info % 16)]

CodecEncodeCan ==
    /\ codecPc = "frame"
    /\ wire' = EncodeCanFrame(frameIn[1])
    /\ codecPc' = "can_wire"
    /\ UNCHANGED << harnessVars, statVars, startVars, frameIn, decoded >>

CodecDecodeCan ==
    /\ codecPc = "can_wire"
    /\ decoded' = << DecodeCanFrame(wire) >>
    /\ codecPc' = "can_done"
    /\ UNCHANGED << harnessVars, statVars, startVars, frameIn, wire >>

CodecEncodeUdp ==
    /\ codecPc = "frame"
    /\ wire' = EncodeUdpFrame(frameIn[1])
    /\ codecPc' = "udp_wire"
    /\ UNCHANGED << harnessVars, statVars, startVars, frameIn, decoded >>

CodecDecodeUdp ==
    /\ codecPc = "udp_wire"
    /\ decoded' = << DecodeUdpFrame(wire) >>
    /\ codecPc' = "udp_done"
    /\ UNCHANGED << harnessVars, statVars, startVars, frameIn, wire >>

NextCodec == CodecEncodeCan \/ CodecDecodeCan \/ CodecEncodeUdp \/ CodecDecodeUdp

\* Every frame of Frames.
InitCodec ==
    /\ peer = "silent"
    /\ channels = [t \in {"t1"} |-> [id_min |-> 256, id_max |-> 256]]
    /\ ports_cfg = << OnePort >>
    /\ frameIn \in {<< f >> : f \in Frames}
    /\ InitRest

SpecCodec == InitCodec /\ [][NextCodec]_vars

\* C21: decoding the 16-byte CAN encoding of a frame, and decoding its
\* 13-byte UDP encoding, each give back the identifier, the extended flag and
\* the first length bytes of the payload; the encodings have their fixed
\* sizes and are zero past the declared length.
C21_RoundTrip ==
    /\ codecPc \in {"can_wire", "can_done"} =>
          /\ Len(wire) = CAN_SIZE
          /\ \A i \in 1..8 : i > frameIn[1].length => wire[8 + i] = 0
    /\ codecPc \in {"udp_wire", "udp_done"} =>
          /\ Len(wire) = UDP_SIZE
          /\ wire[1] = (IF frameIn[1].extended THEN 128 ELSE 0) + frameIn[1].length
          /\ \A i \in 1..8 : i > frameIn[1].length => wire[5 + i] = 0
    /\ codecPc \in {"can_done", "udp_done"} =>
          /\ decoded[1].identifier = frameIn[1].identifier
          /\ decoded[1].extended = frameIn[1].extended
          /\ decoded[1].payload = Truncate(frameIn[1].payload, frameIn[1].length)

\* C21 witness: an extended frame with the largest identifier and 3 payload
\* bytes has gone through the CAN encoding and back.
C21_Witness ==
    /\ codecPc = "can_done"
    /\ frameIn[1].extended
    /\ frameIn[1].identifier = 536870911
    /\ frameIn[1].length = 3
    /\ decoded[1].payload = <<1, 2, 3>>

\* ------------------------------------------------------------ the cycle of run()
\* The step of the cycle a position of run() belongs to: 2 SEND_CAN,
\* 3 AWAIT_UDP, 4 SEND_UDP_ECHO, 5 AWAIT_CAN_ECHO; 0 outside a cycle.  GENERATE
\* is the move from "loop" into the cycle, RECORD the move out of it.
StepOf(p) ==
    CASE p = "send_can" -> 2
      [] p \in {"wfp_enter", "wfp_wait", "got_resp"} -> 3
      [] p \in {"echo_udp", "sendto"} -> 4
      [] p \in {"can_wait", "can_recv", "can_check"} -> 5
      [] OTHER -> 0

\* C22: the steps of a cycle follow each other in the order GENERATE, SEND_CAN,
\* AWAIT_UDP, SEND_UDP_ECHO, AWAIT_CAN_ECHO, RECORD, none skipped forward and
\* none repeated after a later one; a cycle starts only from the loop test,
\* that is after the record of the one before, and is recorded exactly once,
\* when it ends; a datagram is sent to the bridge only when the reply held
\* from this cycle's wait carries the sent identifier and payload; success is
\* counted only when the frame just received on CAN matches.
C22_CycleSequential ==
    [][\A t \in Testers :
         /\ (pc[t] \in InCycle /\ pc'[t] \in InCycle) =>
                StepOf(pc'[t]) \in {StepOf(pc[t]), StepOf(pc[t]) + 1}
         /\ (pc[t] \notin InCycle /\ pc'[t] \in InCycle) =>
                pc[t] = "loop" /\ pc'[t] = "send_can" /\ stats'[t] = stats[t]
         /\ (pc[t] \in InCycle /\ pc'[t] \notin InCycle) =>
                stats'[t].total = stats[t].total + 1
         /\ stats'[t] # stats[t] =>
                /\ pc[t] \in InCycle /\ pc'[t] \in {"loop", "sleep"}
                /\ stats'[t].total = stats[t].total + 1
         /\ Len(bridgeUdp'[t]) > Len(bridgeUdp[t]) =>
                /\ StepOf(pc[t]) = 4 /\ StepOf(pc'[t]) = 5
                /\ udp_resp[t] # <<>>
                /\ udp_resp[t][1].can_id = base_id[t]
                /\ udp_resp[t][1].payload = payload[t]
         /\ stats'[t].success > stats[t].success =>
                /\ StepOf(pc[t]) = 5
                /\ frame_bytes[t] # <<>>
                /\ LET f == CanUnpack(frame_bytes[t][1])
                   IN  /\ U32Value(AndEffMask(f.can_id)) = base_id[t]
                       /\ SubSeq(f.data, 1, f.dlc) = SubSeq(payload[t], 1, f.dlc)
    ]_vars

\* C22 witness: a cycle went through all its steps: its echo was sent and its
\* success is recorded.
C22_Witness ==
    \E t \in Testers :
        /\ stats[t].success = 1
        /\ Len(bridgeUdp[t]) = 1
        /\ pc[t] = "loop"

\* C23: the step in which can_sock.send fails records send_error and goes to
\* the pause; it holds no reply and touches neither the mailbox nor the UDP
\* socket; the pause records nothing, sends nothing and ends at the loop test,
\* from where alone the next cycle starts.
C23_CanSendFailureEndsCycle ==
    [][\A t \in Testers :
         /\ (pc[t] = "send_can" /\ pc'[t] \notin {"send_can", "wfp_enter"}) =>
                /\ pc'[t] = "sleep"
                /\ stats'[t].send_errors = stats[t].send_errors + 1
                /\ stats'[t].total = stats[t].total + 1
                /\ stats'[t].success = stats[t].success
                /\ udp_resp[t] = <<>> /\ udp_resp'[t] = <<>>
                /\ mailbox' = mailbox /\ delivered' = delivered
                /\ bridgeUdp' = bridgeUdp /\ sendOwner' = sendOwner
         /\ pc[t] = "sleep" =>
                /\ pc'[t] \in {"sleep", "loop"}
                /\ stats'[t] = stats[t]
                /\ bridgeUdp'[t] = bridgeUdp[t]
         /\ (pc'[t] = "sleep" /\ pc[t] # "sleep") => pc[t] = "send_can"
    ]_vars

\* C23 witness: the first CAN send failed; send_error is recorded and the
\* tester is in its pause.
C23_Witness ==
    \E t \in Testers :
        /\ pc[t] = "sleep"
        /\ stats[t].total = 1 /\ stats[t].send_errors = 1
        /\ bridgeUdp[t] = <<>>

\* The number of a tester's cycles in which send_to_bridge succeeded: those
\* recorded as success or can_timeout and the one now in the CAN echo wait.
CyclesPastEcho(t) ==
    stats[t].success + stats[t].can_timeouts + (IF StepOf(pc[t]) = 5 THEN 1 ELSE 0)

\* C24: a cycle recorded as udp_timeout or data_error ends at the check of the
\* reply, before send_to_bridge and the CAN echo wait: the datagrams sent to
\* the bridge are only those of cycles that reached the CAN echo wait, and the
\* recording step sends nothing.  The datagram a cycle was handed is out of the
\* mailbox from then on, so a later wait is never handed it again.
C24_FailedReplyEndsCycle ==
    /\ [](\A t \in Testers : Len(bridgeUdp[t]) = CyclesPastEcho(t))
    /\ [](\A s \in DOMAIN delivered :
              /\ delivered[s] = 1
              /\ \A k \in DOMAIN mailbox : \A i \in 1..Len(mailbox[k]) :
                     mailbox[k][i].seq # s)
    /\ [][\A t \in Testers :
            \/ stats'[t].udp_timeouts > stats[t].udp_timeouts
            \/ stats'[t].data_errors > stats[t].data_errors
            =>
            /\ pc[t] = "got_resp" /\ pc'[t] = "loop"
            /\ bridgeUdp' = bridgeUdp
            /\ frame_bytes[t] = <<>>
            /\ stats'[t].data_errors > stats[t].data_errors =>
                   /\ udp_resp[t] # <<>>
                   /\ udp_resp[t][1].seq \in DOMAIN delivered
                   /\ udp_resp'[t] = <<>>
       ]_vars

\* C24 witness: the first cycle was handed a datagram with another payload and
\* is recorded as data_error; nothing was sent to the bridge, and the next
\* cycle is blocked in its wait.
C24_Witness ==
    \E t \in Testers :
        /\ stats[t].total = 1 /\ stats[t].data_errors = 1
        /\ bridgeUdp[t] = <<>>
        /\ DOMAIN delivered # {}
        /\ pc[t] = "wfp_wait"

\* C25: the step that returns from send_to_bridge either has sent the bytes of
\* the datagram wait_for_packet returned in this cycle, all of them and
\* nothing else, and enters the CAN echo wait; or it has failed, sent nothing,
\* recorded send_error and gone back to the loop test.
C25_EchoIsReceivedBytes ==
    [][\A t \in Testers :
          (pc[t] = "sendto" /\ pc'[t] # "sendto") =>
              /\ udp_resp[t] # <<>>
              /\ \/ /\ pc'[t] = "can_wait"
                    /\ bridgeUdp'[t] = Append(bridgeUdp[t], udp_resp[t][1].packet)
                    /\ stats'[t] = stats[t]
                 \/ /\ pc'[t] = "loop"
                    /\ bridgeUdp'[t] = bridgeUdp[t]
                    /\ stats'[t].send_errors = stats[t].send_errors + 1
                    /\ stats'[t].total = stats[t].total + 1
                    /\ stats'[t].success = stats[t].success
    ]_vars

\* C25 witness: a 14-byte datagram that unpacks to the sent identifier and
\* payload was returned and has been sent back with its 14 bytes.
C25_Witness ==
    \E t \in Testers :
        /\ pc[t] = "can_wait"
        /\ bridgeUdp[t] = <<LongDatagram>>
        /\ Len(bridgeUdp[t][1]) = UDP_SIZE + 1

\* The frame a tester has just received on CAN carries the sent identifier once
\* the flag bits are masked off, and its first dlc data bytes are the first dlc
\* bytes of the sent payload.
ReceivedMatches(t) ==
    LET f == CanUnpack(frame_bytes[t][1])
        n == IF f.dlc < 8 THEN f.dlc ELSE 8
    IN  /\ U32Value([f.can_id EXCEPT ![1] = @ % 32]) = base_id[t]
        /\ \A i \in 1..n : f.data[i] = payload[t][i]

\* C26, as the specification states it: the matching frame that makes the
\* wait return True is received before the stop signal is set.
C26_TrueOnlyBeforeStop ==
    [][\A t \in Testers :
          (pc[t] = "can_recv" /\ pc'[t] = "can_check" /\ ReceivedMatches(t)') =>
              ~stop
    ]_vars

\* C26, amended: recvfrom is entered only when the loop test has found the
\* stop signal clear and the deadline not passed; the frame it returns ends
\* the wait with True, recorded as success, exactly when it matches, and is
\* otherwise dropped with the wait going on and nothing recorded; can_timeout
\* is recorded when the loop test finds the stop signal set or the deadline
\* passed, or when recvfrom fails, and the loop test records it whenever it
\* finds the deadline passed.
C26_EchoWait ==
    [][\A t \in Testers :
         /\ (pc[t] = "can_wait" /\ pc'[t] = "can_recv") => ~stop /\ ~expired[t]
         /\ (pc'[t] = "can_check" /\ pc[t] # "can_check") =>
                pc[t] = "can_recv" /\ frame_bytes'[t] # <<>>
         /\ (pc[t] = "can_check" /\ pc'[t] # "can_check") =>
                IF ReceivedMatches(t)
                THEN /\ pc'[t] = "loop"
                     /\ stats'[t].success = stats[t].success + 1
                     /\ stats'[t].can_timeouts = stats[t].can_timeouts
                ELSE /\ pc'[t] = "can_wait"
                     /\ stats'[t] = stats[t]
                     /\ frame_bytes'[t] = <<>>
         /\ stats'[t].success > stats[t].success => pc[t] = "can_check"
         /\ stats'[t].can_timeouts > stats[t].can_timeouts =>
                \/ pc[t] = "can_wait" /\ (stop \/ expired[t])
                \/ pc[t] = "can_recv"
         /\ (pc[t] = "can_wait" /\ pc'[t] # "can_wait" /\ expired[t]) =>
                /\ pc'[t] = "loop"
                /\ stats'[t].can_timeouts = stats[t].can_timeouts + 1
    ]_vars

\* C26 witness: after the stop signal, recvfrom has returned an extended frame
\* of 0x7FF that declares 7 bytes and differs from the sent payload in the
\* eighth byte only: it matches.
C26_Witness ==
    \E t \in Testers :
        /\ pc[t] = "can_check"
        /\ stop
        /\ payload[t] = PayloadA
        /\ frame_bytes[t] = <<CanPack(OrEffFlag(U32(2047)), 7, Pad3, PayloadB)>>
        /\ ReceivedMatches(t)

\* ------------------------------------------------------------ the mailbox
\* C27: outside the condition lock no key of the mailbox maps to an empty
\* queue.  The turn of wait_for_packet that hands out the last entry of a queue
\* removes its key, one that hands out an earlier entry leaves the rest under
\* the key, and neither touches another key; a turn that returns None or goes
\* to wait leaves the mailbox as it is, so no key is created for the awaited
\* identifier.
C27_NoEmptyQueue ==
    /\ [](\A k \in DOMAIN mailbox : mailbox[k] # <<>>)
    /\ [][\A t \in Testers :
            (pc[t] = "wfp_enter" /\ pc'[t] # "wfp_enter") =>
                IF pc'[t] = "got_resp" /\ udp_resp'[t] # <<>>
                THEN /\ base_id[t] \in DOMAIN mailbox
                     /\ IF Len(mailbox[base_id[t]]) = 1
                        THEN DOMAIN mailbox' = DOMAIN mailbox \ {base_id[t]}
                        ELSE /\ DOMAIN mailbox' = DOMAIN mailbox
                             /\ mailbox'[base_id[t]] = Tail(mailbox[base_id[t]])
                     /\ \A k \in DOMAIN mailbox' \ {base_id[t]} :
                            mailbox'[k] = mailbox[k]
                ELSE mailbox' = mailbox
       ]_vars

\* C27 witness: wait_for_packet has handed out the only datagram queued for
\* its identifier; that key is gone and the other identifier's queue is left.
C27_Witness ==
    \E t \in Testers :
        /\ pc[t] = "got_resp" /\ udp_resp[t] # <<>>
        /\ base_id[t] \notin DOMAIN mailbox
        /\ DOMAIN mailbox = {2048}

\* C28, as the specification states it: the queue of an identifier is bounded,
\* so it holds fewer datagrams than the peer may send, however many that is.
C28_QueueBounded ==
    \A k \in DOMAIN mailbox : Len(mailbox[k]) < MaxPkts

\* C29: the receive loop numbers the datagrams in the order it receives and
\* enqueues them.  Every queue holds datagrams of its own identifier in rising
\* order of these numbers, and wait_for_packet hands out the datagram of the
\* awaited identifier with the lowest number, leaving the later ones queued in
\* their order: datagrams of one identifier are returned in the order of
\* their enqueueing.
C29_FifoPerIdentifier ==
    /\ [](\A k \in DOMAIN mailbox :
              /\ \A i \in 1..Len(mailbox[k]) : mailbox[k][i].can_id = k
              /\ \A i, j \in 1..Len(mailbox[k]) :
                     i < j => mailbox[k][i].seq < mailbox[k][j].seq)
    /\ [][\A t \in Testers :
            (pc[t] = "wfp_enter" /\ pc'[t] = "got_resp" /\ udp_resp'[t] # <<>>) =>
                /\ udp_resp'[t][1].can_id = base_id[t]
                /\ \A i \in 1..Len(mailbox[base_id[t]]) :
                       udp_resp'[t][1].seq <= mailbox[base_id[t]][i].seq
                /\ base_id[t] \in DOMAIN mailbox' =>
                       \A i \in 1..Len(mailbox'[base_id[t]]) :
                           /\ udp_resp'[t][1].seq < mailbox'[base_id[t]][i].seq
                           /\ mailbox'[base_id[t]][i] = mailbox[base_id[t]][i + 1]
       ]_vars

\* C29 witness: two datagrams of the awaited identifier were queued; the first
\* one received has been handed out and the second is still queued.
C29_Witness ==
    \E t \in Testers :
        /\ pc[t] = "got_resp" /\ udp_resp[t] # <<>>
        /\ udp_resp[t][1].seq = 1
        /\ base_id[t] \in DOMAIN mailbox
        /\ mailbox[base_id[t]][1].seq = 2

\* C30: every turn of the loop of wait_for_packet, the first one and the one
\* after each wake-up alike, decides on what it finds then: the head of the
\* awaited identifier's queue if that queue is not empty; None if it is empty
\* and the deadline has passed or the stop signal is set; else it waits again
\* and returns nothing.  A wake-up of any cause only leads to such a turn.
\* No caller stays blocked in the wait while a datagram of its identifier is
\* queued, so no arrival is missed.
C30_PredicatesRechecked ==
    /\ [](\A t \in Testers :
              pc[t] = "wfp_wait" =>
                  /\ base_id[t] \notin DOMAIN mailbox
                  /\ udp_resp[t] = <<>>)
    /\ [][\A t \in Testers :
            /\ (pc[t] = "wfp_enter" /\ pc'[t] # "wfp_enter") =>
                   IF base_id[t] \in DOMAIN mailbox /\ mailbox[base_id[t]] # <<>>
                   THEN /\ pc'[t] = "got_resp"
                        /\ udp_resp'[t] = <<mailbox[base_id[t]][1]>>
                   ELSE IF expired[t] \/ stop
                   THEN pc'[t] = "got_resp" /\ udp_resp'[t] = <<>>
                   ELSE pc'[t] = "wfp_wait" /\ udp_resp'[t] = <<>>
            /\ (pc[t] = "wfp_wait" /\ pc'[t] # "wfp_wait") =>
                   /\ pc'[t] = "wfp_enter"
                   /\ udp_resp'[t] = <<>>
                   /\ stats'[t] = stats[t]
       ]_vars

\* C30 witness: a caller is at a turn of the loop with only another
\* identifier's datagram queued, the deadline not passed and the stop signal
\* clear: it has to wait again.
C30_Witness ==
    \E t \in Testers :
        /\ pc[t] = "wfp_enter"
        /\ DOMAIN mailbox = {2048} /\ base_id[t] = 2047
        /\ ~expired[t] /\ ~stop

\* ------------------------------------------------------------ two channels, disjoint ranges
\* Two channels on one port with disjoint ranges: a standard one,
\* [0x100, 0x101], and an extended one, [0x800, 0x800].
InitPair(p) ==
    /\ peer = p
    /\ channels = [t \in {"t1", "t2"} |->
                      IF t = "t1" THEN [id_min |-> 256, id_max |-> 257]
                                  ELSE [id_min |-> 2048, id_max |-> 2048]]
    /\ InitThreads

\* The whole harness on these channels, with the echoing peer.  Both CAN
\* devices bind, so no tester ends before the stop signal and the loop of
\* main() is left by the interrupt only.
NextPair ==
    \/ RxStep
    \/ \E t \in Testers : TesterStep(t) \/ TimeStep(t)
    \/ MainInterrupt \/ CloseFlag \/ CloseNotify \/ CloseSock \/ MainSummary
    \/ RepStep

SpecPair == InitPair("echo") /\ [][NextPair]_vars

\* C31: the statistics of a tester change only in a step of that tester's own
\* run(), the one that ends a cycle; that step changes no other tester's
\* statistics and is no step of another thread; the steps of the reporter and
\* of main, the final summary among them, change no counter.
C31_StatsOwnedByTester ==
    [][/\ \A t \in Testers :
             stats'[t] # stats[t] =>
                 /\ pc[t] \in InCycle /\ pc'[t] \notin InCycle
                 /\ \A u \in Testers \ {t} : stats'[u] = stats[u] /\ pc'[u] = pc[u]
                 /\ repPc' = repPc /\ mainPc' = mainPc /\ rxPc' = rxPc
       /\ (repPc' # repPc \/ mainPc' # mainPc) => stats' = stats
    ]_vars

\* C31 witness: each tester has recorded a cycle of its own, the reporter has
\* reported and main has printed the summary.
C31_Witness ==
    /\ stats["t1"].total = 1 /\ stats["t1"].last_id \in {256, 257}
    /\ stats["t2"].total = 1 /\ stats["t2"].last_id = 2048
    /\ repPc = "done"
    /\ mainPc = "done"

\* ------------------------------------------------------------ overlapping and disjoint ranges
\* Two channels on one port: either both with the range [0x7FF, 0x7FF], or
\* one with [0x7FF, 0x7FF] and one with [0x800, 0x800].  The peer is arbitrary.
InitRanges ==
    /\ peer = "any13"
    /\ channels \in
          {[t \in {"t1", "t2"} |-> [id_min |-> 2047, id_max |-> 2047]],
           [t \in {"t1", "t2"} |->
               IF t = "t1" THEN [id_min |-> 2047, id_max |-> 2047]
                           ELSE [id_min |-> 2048, id_max |-> 2048]]}
    /\ InitThreads

\* The port multiplexer and these testers, up to the stop signal.
SpecRanges == InitRanges /\ [][NextMux]_vars

\* No identifier belongs to the ranges of two channels.
RangesDisjoint ==
    \A t, u \in Testers :
        t # u => \/ channels[t].id_max < channels[u].id_min
                 \/ channels[u].id_max < channels[t].id_min

\* Tester b holds a datagram that answers the frame tester a has in flight:
\* both cycles use the same identifier, the datagram carries a's payload and
\* not b's, and a is still waiting.
Misrouted(a, b) ==
    /\ a # b
    /\ InWait(a) /\ Holds(b)
    /\ base_id[a] = base_id[b]
    /\ udp_resp[b][1].payload = payload[a]
    /\ udp_resp[b][1].payload # payload[b]

\* C32: the mailbox is keyed by the identifier alone.  wait_for_packet hands
\* the head of the awaited identifier's queue to whichever caller takes its
\* turn, so a datagram a tester receives carries the identifier of its cycle,
\* which lies in its own range; when the ranges are disjoint no two cycles in
\* flight use the same identifier and no tester holds the answer to another
\* tester's frame.  (That this does happen with overlapping ranges is the
\* witness.)
C32_RoutedByIdentifierOnly ==
    /\ [](\A t \in Testers :
              udp_resp[t] # <<>> =>
                  /\ udp_resp[t][1].can_id = base_id[t]
                  /\ channels[t].id_min <= udp_resp[t][1].can_id
                  /\ udp_resp[t][1].can_id <= channels[t].id_max)
    /\ [](RangesDisjoint =>
              \A t, u \in Testers :
                  /\ (t # u /\ pc[t] \in InCycle /\ pc[u] \in InCycle) =>
                         base_id[t] # base_id[u]
                  /\ ~Misrouted(t, u))
    /\ [][\A t \in Testers :
            (pc[t] = "wfp_enter" /\ pc'[t] = "got_resp" /\ udp_resp'[t] # <<>>) =>
                udp_resp'[t][1] = mailbox[base_id[t]][1]
       ]_vars

\* C32 witness: with the same range on both channels, both testers have a
\* cycle in flight with 0x7FF and different payloads; the datagram that answers
\* the first tester's frame has been handed to the second, and the first is
\* still waiting.
C32_Witness ==
    /\ ~RangesDisjoint
    /\ Misrouted("t1", "t2")
    /\ base_id["t1"] = 2047
    /\ mailbox = << >>

\* ------------------------------------------------------------ the stop signal in a cycle
\* C33: the stop signal, once set, stays set.  From then on the loop test of
\* run() starts no cycle: it ends the thread.  A CAN send is made only at the
\* start of a cycle, which is reached only from a loop test that found the
\* signal clear, so after the signal a tester makes at most the one send of a
\* cycle whose loop test came before it.  Both bounded waits end on the
\* signal: wait_for_packet returns at its next turn, the CAN echo wait at its
\* next loop test.
C33_StopEndsCycles ==
    [][/\ stop => stop'
       /\ \A t \in Testers :
            /\ (stop /\ pc[t] = "loop" /\ pc'[t] # "loop") => pc'[t] = "done"
            /\ (pc'[t] = "send_can" /\ pc[t] # "send_can") =>
                   pc[t] = "loop" /\ ~stop
            /\ (pc[t] = "send_can" /\ pc'[t] # "send_can") =>
                   pc'[t] \in {"wfp_enter", "sleep"}
            /\ (stop /\ pc[t] = "wfp_enter" /\ pc'[t] # "wfp_enter") =>
                   pc'[t] = "got_resp"
            /\ (stop /\ pc[t] = "can_wait" /\ pc'[t] # "can_wait") =>
                   /\ pc'[t] = "loop"
                   /\ stats'[t].can_timeouts = stats[t].can_timeouts + 1
    ]_vars

\* C33 witness: the stop signal was set between a tester's loop test and its
\* CAN send; this send is still to come.
C33_Witness ==
    \E t \in Testers :
        /\ stop
        /\ pc[t] = "send_can"
        /\ stats[t].total = 1

\* ------------------------------------------------------------ identifiers and frames
\* The largest value of can_id & CAN_EFF_MASK: 29 bits.
CAN_EFF_MASK == 536870911

\* C34: the identifier of a cycle lies in the channel's range, ends included;
\* the frame handed to can_sock.send declares 8 data bytes, carries the cycle's
\* payload of 8 bytes and the cycle's identifier, and has the extended-frame
\* bit set exactly when id_max > 0x7FF; once a cycle is recorded last_id lies
\* in the range and has no flag bit.
C34_IdentifierInRange ==
    /\ [](\A t \in Testers :
              /\ pc[t] \in InCycle =>
                     /\ channels[t].id_min <= base_id[t]
                     /\ base_id[t] <= channels[t].id_max
                     /\ Len(payload[t]) = 8
              /\ stats[t].total > 0 =>
                     /\ channels[t].id_min <= stats[t].last_id
                     /\ stats[t].last_id <= channels[t].id_max
                     /\ stats[t].last_id <= CAN_EFF_MASK)
    /\ [][\A t \in Testers :
            (pc[t] = "send_can" /\ pc'[t] = "wfp_enter") =>
                /\ Len(bridgeCan') = Len(bridgeCan) + 1
                /\ LET sent == bridgeCan'[Len(bridgeCan')]
                       idw == <<sent[4], sent[3], sent[2], sent[1]>>
                   IN  /\ Len(sent) = CAN_SIZE
                       /\ sent[5] = 8
                       /\ (idw[1] >= 128) <=> (channels[t].id_max > 2047)
                       /\ ((idw[1] % 128) * 256 + idw[2]) * 65536
                              + idw[3] * 256 + idw[4] = base_id[t]
                       /\ SubSeq(sent, 9, 16) = payload[t]
       ]_vars

\* C34 witness: the standard channel has recorded a cycle with the upper end of
\* its range, 0x101, and the extended channel one with 0x800.
C34_Witness ==
    /\ stats["t1"].total = 1 /\ stats["t1"].last_id = 257
    /\ stats["t2"].total = 1 /\ stats["t2"].last_id = 2048
    /\ ~(channels["t1"].id_max > 2047) /\ channels["t2"].id_max > 2047

\* ------------------------------------------------------------ one outcome per cycle
\* C35: a started iteration of the loop of run() is left only by recording:
\* the step that leaves it adds one to total and one to exactly one outcome
\* counter, and it goes on to the next loop test (through the pause after a
\* failed CAN send), never to the end of the thread; no other step changes the
\* statistics, no counter ever goes down, and total is always the sum of the
\* five counters, the number of iterations started and finished.
C35_OneOutcomePerCycle ==
    /\ [](\A t \in Testers : stats[t].total = OutcomeSum(stats[t]))
    /\ [][\A t \in Testers :
            /\ (pc[t] \in InCycle /\ pc'[t] \notin InCycle) =>
                   /\ pc'[t] \in {"loop", "sleep"}
                   /\ stats'[t].total = stats[t].total + 1
                   /\ OutcomeSum(stats'[t]) = OutcomeSum(stats[t]) + 1
            /\ ~(pc[t] \in InCycle /\ pc'[t] \notin InCycle) =>
                   stats'[t] = stats[t]
            /\ stats'[t].total >= stats[t].total
            /\ stats'[t].success >= stats[t].success
            /\ stats'[t].udp_timeouts >= stats[t].udp_timeouts
            /\ stats'[t].can_timeouts >= stats[t].can_timeouts
            /\ stats'[t].data_errors >= stats[t].data_errors
            /\ stats'[t].send_errors >= stats[t].send_errors
       ]_vars

\* C35 witness: two iterations have finished, one with a failed CAN send and
\* one with success, and the thread has ended.
C35_Witness ==
    \E t \in Testers :
        /\ pc[t] = "done"
        /\ stats[t].total = 2
        /\ stats[t].send_errors = 1 /\ stats[t].success = 1

\* ------------------------------------------------------------ stale replies
\* The item is queued in mailbox mb.
Queued(mb, item) ==
    \E k \in DOMAIN mb : \E i \in 1..Len(mb[k]) : mb[k][i] = item

\* C36: nothing flushes the mailbox.  A queued datagram stays queued, through
\* the end of a cycle and the start of the next one as well, until the step of
\* wait_for_packet that hands it to a caller awaiting its identifier; that
\* caller gets the oldest datagram queued under the identifier, whichever
\* cycle it answered, and when its payload is not the one the caller's cycle
\* sent the cycle is recorded as data_error.
C36_StaleReplyKept ==
    [][/\ \A k \in DOMAIN mailbox : \A i \in 1..Len(mailbox[k]) :
             \/ Queued(mailbox', mailbox[k][i])
             \/ /\ i = 1
                /\ \E t \in Testers :
                      /\ pc[t] = "wfp_enter" /\ pc'[t] = "got_resp"
                      /\ base_id[t] = k
                      /\ udp_resp'[t] = <<mailbox[k][1]>>
       /\ \A t \in Testers :
             (/\ pc[t] = "got_resp" /\ pc'[t] # "got_resp"
              /\ udp_resp[t] # <<>>
              /\ udp_resp[t][1].payload # payload[t]) =>
                 /\ pc'[t] = "loop"
                 /\ stats'[t].data_errors = stats[t].data_errors + 1
    ]_vars

\* C36 witness: the first cycle sent PayloadA on 0x7FF and timed out; the one
\* datagram received, the correct answer to that cycle, was enqueued after
\* that; the second cycle sent PayloadB on 0x7FF and its wait has returned the
\* old datagram.
C36_Witness ==
    \E t \in Testers :
        /\ stats[t].total = 1 /\ stats[t].udp_timeouts = 1
        /\ nrecv = 1
        /\ pc[t] = "got_resp" /\ udp_resp[t] # <<>>
        /\ base_id[t] = 2047 /\ payload[t] = PayloadB
        /\ udp_resp[t][1].seq = 1
        /\ udp_resp[t][1].payload = PayloadA

\* ------------------------------------------------------------ a cycle cut short by the stop signal
\* C37 as stated: a tester that leaves the CAN echo wait after the stop signal
\* was set during that wait records can_timeout.
C37_StopInEchoWaitIsTimeout ==
    [][\A t \in Testers :
          (/\ stop
           /\ pc[t] \in {"can_wait", "can_recv", "can_check"}
           /\ stats'[t] # stats[t]) =>
              stats'[t].can_timeouts = stats[t].can_timeouts + 1
    ]_vars

\* C37: a turn of wait_for_packet that finds the stop signal set and no
\* datagram queued under the awaited identifier returns None, and None is
\* recorded as udp_timeout; a loop test of the CAN echo wait that finds the
\* signal set ends the cycle as can_timeout, while a receive already entered
\* may still end it otherwise.  An outcome recorded while the signal is set is
\* the tester's last: the thread goes, through the pause after a failed send
\* if there was one, to the loop test of run(), which ends it, and an ended
\* thread records nothing.
C37_StopRecordedAsTimeout ==
    [][\A t \in Testers :
          /\ (/\ stop /\ pc[t] = "wfp_enter" /\ pc'[t] # "wfp_enter"
              /\ MailboxGet(mailbox, base_id[t]) = <<>>) =>
                 pc'[t] = "got_resp" /\ udp_resp'[t] = <<>>
          /\ (pc[t] = "got_resp" /\ pc'[t] # "got_resp" /\ udp_resp[t] = <<>>) =>
                 /\ pc'[t] = "loop"
                 /\ stats'[t].udp_timeouts = stats[t].udp_timeouts + 1
          /\ (stop /\ pc[t] = "can_wait" /\ pc'[t] # "can_wait") =>
                 /\ pc'[t] = "loop"
                 /\ stats'[t].can_timeouts = stats[t].can_timeouts + 1
          /\ (stop /\ stats'[t] # stats[t]) =>
                 stop' /\ pc'[t] \in {"loop", "sleep"}
          /\ (stop /\ pc[t] = "sleep" /\ pc'[t] # "sleep") =>
                 stop' /\ pc'[t] = "loop"
          /\ (stop /\ pc[t] = "loop" /\ pc'[t] # "loop") => pc'[t] = "done"
          /\ pc[t] = "done" => pc'[t] = "done" /\ stats'[t] = stats[t]
    ]_vars

\* C37 witness: wait_for_packet has returned None with the deadline not
\* passed: the stop signal, not the peer, ended the wait.
C37_Witness ==
    \E t \in Testers :
        /\ stop /\ ~expired[t]
        /\ pc[t] = "got_resp" /\ udp_resp[t] = <<>>
        /\ stats[t].total = 0

\* ------------------------------------------------------------ data before the deadline
\* C38: a turn of wait_for_packet that finds a datagram queued under the
\* awaited identifier returns the oldest one at once and removes it, whether
\* or not the deadline has passed or the stop signal is set; the caller is
\* never sent to wait while its queue holds a datagram.
C38_DataBeforeDeadline ==
    [][\A t \in Testers :
          (/\ pc[t] = "wfp_enter"
           /\ MailboxGet(mailbox, base_id[t]) # <<>>
           /\ \/ pc'[t] # pc[t]
              \/ mailbox' # mailbox
              \/ udp_resp'[t] # udp_resp[t]) =>
              \/ /\ pc'[t] = "got_resp"
                 /\ udp_resp'[t] = << Head(MailboxGet(mailbox, base_id[t])) >>
                 /\ MailboxGet(mailbox', base_id[t]) =
                        Tail(MailboxGet(mailbox, base_id[t]))
              \/ /\ pc'[t] = "wfp_enter"
                 /\ udp_resp'[t] = udp_resp[t]
                 /\ \A k \in DOMAIN mailbox : k \in DOMAIN mailbox'
                 /\ MailboxGet(mailbox', base_id[t]) # <<>>
    ]_vars

\* C38 witness: the stop signal is set, the deadline has passed, and the call
\* has returned a datagram all the same.
C38_Witness ==
    \E t \in Testers :
        /\ stop /\ expired[t]
        /\ pc[t] = "got_resp" /\ udp_resp[t] # <<>>
        /\ udp_resp[t][1].can_id = base_id[t]

\* ------------------------------------------------------------ one deadline per call
\* C39: a call of wait_for_packet has one deadline.  No caller is in
\* cond.wait with its deadline passed; a deadline that has passed stays passed
\* for the rest of the call, whatever is enqueued and whoever is notified; and
\* the first turn the caller takes after it ends the call.
C39_DeadlineFixed ==
    /\ [](\A t \in Testers : pc[t] = "wfp_wait" => ~expired[t])
    /\ [][\A t \in Testers :
             (expired[t] /\ pc[t] = "wfp_enter") =>
                 \/ pc'[t] = "got_resp"
                 \/ pc'[t] = "wfp_enter" /\ expired'[t]
       ]_vars

\* C39 witness: every datagram the peer sent was for another identifier and is
\* queued under it; the caller awaiting 0x7FF has returned None at its
\* deadline, the stop signal not set.
C39_Witness ==
    \E t \in Testers :
        /\ ~stop /\ expired[t]
        /\ base_id[t] = 2047
        /\ pc[t] = "got_resp" /\ udp_resp[t] = <<>>
        /\ Len(MailboxGet(mailbox, 2048)) = MaxPkts

\* ------------------------------------------------------------ the end of the main loop
\* C40: the loop of main() is left in two ways only, by the interrupt or by a
\* loop test that finds no ChannelTester alive, and both lead into the same
\* finally block: the stop event is set, then close() is called on every
\* PortContext, then the summary is printed and main() returns with code 0.
\* Once no ChannelTester is alive the loop is left without an interrupt being
\* needed, and main() returns.
C40_LoopEndsWithoutRunners ==
    /\ [][/\ (startPc = "run" /\ startPc' # "run") =>
                /\ startPc' = "finally"
                /\ ending' \in {"interrupt", "runners_ended"}
                /\ ending' = "runners_ended" => runnersAlive = {}
          /\ (startPc = "finally" /\ startPc' # "finally") =>
                stop' /\ startPc' = "close"
          /\ (startPc = "close" /\ startPc' # "close") =>
                closed' = port_contexts /\ startPc' = "summary"
          /\ (startPc = "summary" /\ startPc' # "summary") =>
                startPc' = "exited" /\ exitCode' = 0
          /\ startPc \in {"finally", "close", "summary"} => ending' = ending
       ]_vars
    /\ []((startPc = "exited" /\ ending \in {"interrupt", "runners_ended"}) =>
              /\ stop
              /\ closed = port_contexts
              /\ port_contexts = 1..Len(ports_cfg)
              /\ exitCode = 0)
    /\ (startPc = "run" /\ runnersAlive = {}) ~> (startPc = "exited")

\* C40 witness: two ports with a channel each, both testers failed to bind
\* their CAN device, and main() has left its loop by itself and returned.
C40_Witness ==
    /\ Len(ports_cfg) = 2
    /\ runners = {1, 2}
    /\ openFailed = {1, 2}
    /\ ending = "runners_ended"
    /\ startPc = "exited"
    /\ stop
    /\ closed = {1, 2}

\* The length an info byte declares: its low 4 bits.
DeclaredLength(info) == info % 16

\* C11, as the specification states it: no datagram whose info byte declares a
\* length greater than 8 is in the mailbox or is returned by wait_for_packet.
C11_BadLengthDropped ==
    /\ \A k \in DOMAIN mailbox : \A i \in 1..Len(mailbox[k]) :
           DeclaredLength(mailbox[k][i].info) <= 8
    /\ \A t \in Testers :
           udp_resp[t] # <<>> => DeclaredLength(udp_resp[t][1].info) <= 8

====
